---------------------------- MODULE Spec2Model ----------------------------
(***************************************************************************)
(* pcapAI: the session cache (src/src/session_manager.py) and the two      *)
(* query handlers (src/src/ai_query_handler.py,                            *)
(* src/src/tool_calling_handler.py) as state machines.                     *)
(*                                                                         *)
(* Spec       the SessionManager operations, called in any order.          *)
(* SpecQuery  one call of a handler's query(), step by step.               *)
(* SpecCalls  one call of a function of the repository on given arguments.  *)
(* SpecLogs   runs of src/pcap_ai.py and the history and dataset logs.      *)
(* SpecInteractive  the prompts, commands and questions of src/pcap_ai.py.  *)
(***************************************************************************)
EXTENDS Integers, Sequences, FiniteSets, TLC

VARIABLES
    \* ---- SessionManager fields (session_manager.py:26-45)
    openai_key,        \* None or the key read from the key file
    pcap_file,         \* None or the capture-file path
    parsed_data,       \* None or the record set, tagged with the file it was parsed from
    ai_handler,        \* "None", "Standard" or "ToolCalling"
    filtered_packets,  \* None or the cached working set
    analysis_data,     \* None or the cached derived summary
    last_protocols,    \* the protocol list of the last set_protocol_filter
    disk,              \* session_data.pkl: None (absent) or the pickled mapping
    ev,                \* what the last SessionManager call did (observation only)
    \* ---- one query() call of a handler
    handler,           \* "direct" (AIQueryHandler) or "tool" (ToolCallingHandler)
    user_question,
    conversation_history,
    q_data,            \* the analysis_data argument (replaced by the temp file's data)
    pc,                \* position inside query() / _handle_tool_calls()
    attempt,           \* the loop variable of the retry loop
    messages,          \* the conversation sent with each request
    tool_calls,        \* message["tool_calls"] of the ToolDecision response
    tool_results,      \* the list built by _handle_tool_calls
    updated_data,      \* updated_analysis_data
    ret,               \* the value returned to the caller
    dataset,           \* dataset.json as written by append_to_dataset
    appended,          \* the append_to_dataset calls made and whether each wrote
                       \* its entry (observation only)
    probe,             \* the outcome of test_connection (observation only)
    sent,              \* the requests posted for the question, in order (observation only)
    last,              \* the outcome of the last request and the time.sleep after it
                       \* (observation only)
    \* ---- the interaction logs of src/pcap_ai.py
    history,           \* session.history
    session_dataset,   \* session.dataset
    turns,             \* session.conversation_history
    history_file,      \* .cache/history.json: None (absent) or its content
    dataset_file,      \* dataset.json: None (absent) or its content
    running,           \* "off", or where pcap_ai.py is: "user" / "test" mode, "interrupted"
    log_ev,            \* what the last step of pcap_ai.py did (observation only)
    proto_input,       \* the answer read by the protocol prompt of interactive_mode
    \* ---- one call of a function of the repository
    call_args,         \* the function and its arguments
    call_result        \* None, or what the call has produced so far

sessionVars == <<openai_key, pcap_file, parsed_data, ai_handler, filtered_packets,
                 analysis_data, last_protocols, disk, ev>>
queryVars == <<handler, user_question, conversation_history, q_data, pc, attempt,
               messages, tool_calls, tool_results, updated_data, ret, dataset, appended,
               probe, sent, last>>
logVars == <<history, session_dataset, turns, history_file, dataset_file, running, log_ev,
             proto_input>>
callVars == <<call_args, call_result>>
extraVars == <<logVars, callVars>>
vars == <<sessionVars, queryVars, extraVars>>

\* Python's None and a present value: an optional is a sequence of length <= 1.
None == <<>>
Some(x) == <<x>>
Val(o) == o[1]

-----------------------------------------------------------------------------
(* Session: inputs *)

Files == {"a.pcap", "b.pcap"}
ProtocolLists == {<<>>, <<"NFS">>, <<"HTTP">>, <<"SMB2">>, <<"HTTP", "NFS">>}

\* session_manager.py:16-21
protocol_classes == {"NFS", "SMB", "HTTP"}

\* The threshold of _initialize_ai_handler, in KB.
SizeThresholdKB == 10
\* Capture-file sizes in KB: below, at and above the threshold.
FileSizesKB == {SizeThresholdKB - 1, SizeThresholdKB, SizeThresholdKB + 1}

-----------------------------------------------------------------------------
(* Session: helpers *)

\* AIQueryHandler.__init__(self, api_key) takes no test_mode keyword, so the
\* call AIQueryHandler(key, test_mode=...) of _initialize_ai_handler raises
\* TypeError; ToolCallingHandler.__init__ accepts the keyword.
AIQueryHandlerNew(with_test_mode) == IF with_test_mode THEN "TypeError" ELSE "Standard"
ToolCallingHandlerNew(with_test_mode) == "ToolCalling"

\* _initialize_ai_handler: the new value of self.ai_handler.
\* exists/size_kb: os.path.exists and os.path.getsize / 1024 of self.pcap_file.
InitializeAiHandler(key, file, exists, size_kb, cur) ==
    IF key = None THEN cur
    ELSE LET made == IF file # None /\ exists
                     THEN IF size_kb > SizeThresholdKB
                          THEN ToolCallingHandlerNew(TRUE)
                          ELSE AIQueryHandlerNew(TRUE)
                     ELSE AIQueryHandlerNew(TRUE)
         IN  IF made = "TypeError" THEN "None" ELSE made

\* save_session: the new content of session_data.pkl; a failed write is
\* caught and leaves the file as it was.
SaveSession(key, file, data, write_ok, cur) ==
    IF write_ok THEN Some([openai_key |-> key, pcap_file |-> file, parsed_data |-> data])
    ELSE cur

\* PcapAnalyzer.parse_pcap: the record set of a capture file.
ParsePcap(file) == [src |-> file]

\* proto_handler.filter_packets(self.pcap_file) and proto_handler.analyze.
FilterPackets(proto, file) == [src |-> file, proto |-> proto, how |-> "filtered"]
Analyze(proto, packets) == [protocol |-> proto, packets |-> packets]

\* The unfiltered branches of set_protocol_filter.
AllPackets(data) == [src |-> Some(data.src), proto |-> "", how |-> "all"]
PacketsOnly(packets) == [protocol |-> "", packets |-> packets]

Event(op, arg, r, detail) ==
    [op |-> op, arg |-> arg, ret |-> r, detail |-> detail, tick |-> 1 - ev.tick]

-----------------------------------------------------------------------------
(* Session: operations *)

\* set_openai_key(key_file)
SetOpenaiKey ==
    /\ \E found \in BOOLEAN, exists \in BOOLEAN, size_kb \in FileSizesKB, write_ok \in BOOLEAN :
         IF found
         THEN /\ openai_key' = Some("key")
              /\ ai_handler' = InitializeAiHandler(Some("key"), pcap_file, exists, size_kb, ai_handler)
              /\ disk' = SaveSession(Some("key"), pcap_file, parsed_data, write_ok, disk)
              /\ ev' = Event("set_openai_key", <<"found">>, TRUE, "saved")
         ELSE /\ UNCHANGED <<openai_key, ai_handler, disk>>
              /\ ev' = Event("set_openai_key", <<"missing">>, FALSE, "not found")
    /\ UNCHANGED <<pcap_file, parsed_data, filtered_packets, analysis_data, last_protocols>>
    /\ UNCHANGED queryVars
    /\ UNCHANGED extraVars

\* set_pcap_file without the cache test: the file is parsed on every call.
SetPcapFileAlwaysParsing ==
    /\ \E f \in Files, parse_ok \in BOOLEAN, exists \in BOOLEAN, size_kb \in FileSizesKB,
          write_ok \in BOOLEAN :
         /\ pcap_file' = Some(f)
         /\ IF parse_ok
            THEN /\ parsed_data' = Some(ParsePcap(f))
                 /\ ai_handler' = IF openai_key # None
                                  THEN InitializeAiHandler(openai_key, Some(f), exists, size_kb, "None")
                                  ELSE ai_handler
                 /\ disk' = SaveSession(openai_key, Some(f), Some(ParsePcap(f)), write_ok, disk)
                 /\ ev' = Event("set_pcap_file", <<f>>, TRUE, "parsed")
            ELSE /\ UNCHANGED <<parsed_data, ai_handler, disk>>
                 /\ ev' = Event("set_pcap_file", <<f>>, FALSE, "parse failed")
    /\ UNCHANGED <<openai_key, filtered_packets, analysis_data, last_protocols>>
    /\ UNCHANGED queryVars
    /\ UNCHANGED extraVars

\* set_pcap_file(pcap_file)
SetPcapFile ==
    /\ \E f \in Files :
         IF pcap_file = Some(f) /\ parsed_data # None
         THEN /\ ev' = Event("set_pcap_file", <<f>>, TRUE, "cached")
              /\ UNCHANGED <<pcap_file, parsed_data, ai_handler, disk>>
         ELSE \E parse_ok \in BOOLEAN, exists \in BOOLEAN, size_kb \in FileSizesKB,
                 write_ok \in BOOLEAN :
                /\ pcap_file' = Some(f)
                /\ IF parse_ok
                   THEN /\ parsed_data' = Some(ParsePcap(f))
                        /\ ai_handler' = IF openai_key # None
                                         THEN InitializeAiHandler(openai_key, Some(f), exists, size_kb, "None")
                                         ELSE ai_handler
                        /\ disk' = SaveSession(openai_key, Some(f), Some(ParsePcap(f)), write_ok, disk)
                        /\ ev' = Event("set_pcap_file", <<f>>, TRUE, "parsed")
                   ELSE /\ UNCHANGED <<parsed_data, ai_handler, disk>>
                        /\ ev' = Event("set_pcap_file", <<f>>, FALSE, "parse failed")
    /\ UNCHANGED <<openai_key, filtered_packets, analysis_data, last_protocols>>
    /\ UNCHANGED queryVars
    /\ UNCHANGED extraVars

\* set_protocol_filter(protocols)
SetProtocolFilter ==
    /\ \E protocols \in ProtocolLists :
         IF last_protocols = protocols /\ filtered_packets # None
         THEN /\ ev' = Event("set_protocol_filter", protocols, TRUE, "cached")
              /\ UNCHANGED <<last_protocols, filtered_packets, analysis_data>>
         ELSE /\ last_protocols' = protocols
              /\ IF parsed_data = None
                 THEN /\ ev' = Event("set_protocol_filter", protocols, FALSE, "no data")
                      /\ UNCHANGED <<filtered_packets, analysis_data>>
                 ELSE IF protocols # <<>> /\ protocols[1] \in protocol_classes
                 THEN \E filter_ok \in BOOLEAN :
                        IF filter_ok
                        THEN /\ filtered_packets' = Some(FilterPackets(protocols[1], pcap_file))
                             /\ analysis_data' = Some(Analyze(protocols[1], FilterPackets(protocols[1], pcap_file)))
                             /\ ev' = Event("set_protocol_filter", protocols, TRUE, "filtered")
                        ELSE /\ UNCHANGED <<filtered_packets, analysis_data>>
                             /\ ev' = Event("set_protocol_filter", protocols, FALSE, "filter raised")
                 ELSE /\ filtered_packets' = Some(AllPackets(Val(parsed_data)))
                      /\ analysis_data' = Some(PacketsOnly(AllPackets(Val(parsed_data))))
                      /\ ev' = Event("set_protocol_filter", protocols, TRUE,
                                     IF protocols = <<>> THEN "all" ELSE "no handler")
    /\ UNCHANGED <<openai_key, pcap_file, parsed_data, ai_handler, disk>>
    /\ UNCHANGED queryVars
    /\ UNCHANGED extraVars

\* A clear_session that drops the parsed data and keeps the filter cache.
ClearSessionParsedOnly ==
    /\ parsed_data' = None
    /\ last_protocols' = <<>>
    /\ \E remove_ok \in BOOLEAN : disk' = IF remove_ok THEN None ELSE disk
    /\ ev' = Event("clear_session", <<>>, TRUE, "cleared")
    /\ UNCHANGED <<openai_key, pcap_file, filtered_packets, analysis_data, ai_handler>>
    /\ UNCHANGED queryVars
    /\ UNCHANGED extraVars

\* clear_session()
ClearSession ==
    /\ filtered_packets' = None
    /\ analysis_data' = None
    /\ last_protocols' = <<>>
    /\ \E remove_ok \in BOOLEAN : disk' = IF remove_ok THEN None ELSE disk
    /\ ev' = Event("clear_session", <<>>, TRUE, "cleared")
    /\ UNCHANGED <<openai_key, pcap_file, parsed_data, ai_handler>>
    /\ UNCHANGED queryVars
    /\ UNCHANGED extraVars

\* load_session: the three fields read from session_data.pkl; a missing
\* file and a failed read leave the fields of __init__.
LoadSession(file_content, load_ok) ==
    IF file_content # None /\ load_ok
    THEN Val(file_content)
    ELSE [openai_key |-> None, pcap_file |-> None, parsed_data |-> None]

\* SessionManager(): a new manager in the same working directory.
SessionManagerInit ==
    /\ \E load_ok \in BOOLEAN :
         LET loaded == LoadSession(disk, load_ok)
         IN  /\ openai_key' = loaded.openai_key
             /\ pcap_file' = loaded.pcap_file
             /\ parsed_data' = loaded.parsed_data
             /\ ev' = Event("init", <<>>, TRUE,
                            IF disk # None /\ load_ok THEN "loaded" ELSE "fresh")
    /\ ai_handler' = "None"
    /\ filtered_packets' = None
    /\ analysis_data' = None
    /\ last_protocols' = <<>>
    /\ UNCHANGED disk
    /\ UNCHANGED queryVars
    /\ UNCHANGED extraVars

\* get_ai_handler()
GetAiHandler ==
    /\ \E exists \in BOOLEAN, size_kb \in FileSizesKB :
         ai_handler' = IF ai_handler = "None" /\ openai_key # None
                       THEN InitializeAiHandler(openai_key, pcap_file, exists, size_kb, ai_handler)
                       ELSE ai_handler
    /\ ev' = Event("get_ai_handler", <<>>, ai_handler' # "None", "")
    /\ UNCHANGED <<openai_key, pcap_file, parsed_data, filtered_packets, analysis_data,
                   last_protocols, disk>>
    /\ UNCHANGED queryVars
    /\ UNCHANGED extraVars

-----------------------------------------------------------------------------
(* Session: the initial state *)

\* No interactive session of pcap_ai.py and no function call in progress.
LogsIdle ==
    /\ history = <<>>
    /\ session_dataset = <<>>
    /\ turns = <<>>
    /\ history_file = None
    /\ dataset_file = None
    /\ running = "off"
    /\ log_ev = [op |-> "idle"]
    /\ proto_input = ""
CallIdle ==
    /\ call_args = [fn |-> "none"]
    /\ call_result = None

\* SessionManager.__init__ with no session_data.pkl in the working directory.
SessionInit ==
    /\ openai_key = None
    /\ pcap_file = None
    /\ parsed_data = None
    /\ ai_handler = "None"
    /\ filtered_packets = None
    /\ analysis_data = None
    /\ last_protocols = <<>>
    /\ disk = None
    /\ ev = [op |-> "init", arg |-> <<>>, ret |-> TRUE, detail |-> "", tick |-> 0]

-----------------------------------------------------------------------------
(* Query: inputs *)

\* The longest conversation_history and the most tool invocations of one
\* ToolDecision response that are explored.
MaxHist == 1
MaxToolCalls == 2

\* max_retries and the argument of time.sleep in both handlers.
MaxRetries == 3
RetrySeconds == 2

Handlers == {"direct", "tool"}
Questions == {"what protocols are present", "top ip addresses", "how many packets"}

\* The cue words that occur in user_question.lower().
Cues(q) ==
    CASE q = "what protocols are present" -> {"protocol"}
      [] q = "top ip addresses" -> {"ip", "address"}
      [] OTHER -> {}

\* The analysis_data argument and the content of temp_filtered_data.json.
OrigData == [id |-> "analysis_data", by |-> <<>>]
TempData == [id |-> "temp_filtered_data.json", by |-> <<>>]
\* temp_filtered_data.json holding the filtered_data of an earlier
\* filter_packets_by_protocol run with the same protocol.
TempFilteredData == [id |-> "temp_filtered_data.json", by |-> <<"filter_packets_by_protocol">>]
TempContents == {TempData, TempFilteredData}

HistoryEntry(i) == [query |-> "query " \o ToString(i), response |-> "response " \o ToString(i)]
Histories == {[i \in 1..n |-> HistoryEntry(i)] : n \in 0..MaxHist}

\* message["content"] of a 200 response: text, empty, blank, or JSON null.
Contents == {Some("AI answer"), Some(""), Some("  "), None}
Strip(text) == IF text = "  " THEN "" ELSE text

\* The tool invocations the remote model may request: a valid protocol
\* filter, an address filter without and with source_ip, an unknown tool, arguments
\* that are a JSON list, and arguments that are not JSON.
ToolCallKinds ==
    { [name |-> "filter_packets_by_protocol", arguments |-> "{\"protocol\": \"nfs\"}"],
      [name |-> "filter_packets_by_ip", arguments |-> "{}"],
      [name |-> "filter_packets_by_ip", arguments |-> "{\"source_ip\": \"10.0.0.1\"}"],
      [name |-> "frobnicate", arguments |-> "{}"],
      [name |-> "filter_packets_by_operation", arguments |-> "[]"],
      [name |-> "filter_packets_by_protocol", arguments |-> "{\"protocol\": "] }

\* tool_calls of a response: every call has its own correlation id.
WithIds(kinds) ==
    [i \in 1..Len(kinds) |->
        [id |-> "call_" \o ToString(i), name |-> kinds[i].name, arguments |-> kinds[i].arguments]]
ToolCallLists ==
    UNION { {WithIds(k) : k \in [1..n -> ToolCallKinds]} : n \in 1..MaxToolCalls }

-----------------------------------------------------------------------------
(* Query: helpers *)

\* A probe that forgets to look at the status of the test POST.
TestConnectionAnyStatus(net, api) ==
    IF net # "ok" THEN FALSE
    ELSE IF api = "transport" THEN FALSE
    ELSE TRUE

\* test_connection: the GET to a public site, then the POST of a test prompt.
TestConnection(net, api) ==
    IF net # "ok" THEN FALSE
    ELSE IF api = "200" THEN TRUE
    ELSE FALSE

\* generate_offline_response of each handler (the first line of the text).
GenerateOfflineResponse(h, q, data) ==
    IF h = "tool"
    THEN "OFFLINE MODE (Tool Calling) - AI analysis unavailable."
    ELSE IF "protocol" \in Cues(q)
         THEN "Based on the packet analysis, the following protocols were detected in this trace:"
         ELSE IF "ip" \in Cues(q) \/ "address" \in Cues(q)
              THEN "Top source IP addresses in this trace:"
              ELSE "OFFLINE MODE - AI analysis unavailable."

Message(role, content) ==
    [role |-> role, content |-> content, tool_call_id |-> "", tool_calls |-> <<>>]

\* conversation_history cut to its last 3 entries for both handlers.
HistorySentLastThree(h, hist) ==
    IF Len(hist) > 3 THEN SubSeq(hist, Len(hist) - 2, Len(hist)) ELSE hist

\* conversation_history as sent: all of it (direct), the last 3 entries (tool).
HistorySent(h, hist) ==
    IF h = "tool" /\ Len(hist) > 3 THEN SubSeq(hist, Len(hist) - 2, Len(hist)) ELSE hist

RECURSIVE HistoryMessages(_)
HistoryMessages(hist) ==
    IF hist = <<>> THEN <<>>
    ELSE <<Message("user", Some(Head(hist).query)),
           Message("assistant", Some(Head(hist).response))>> \o HistoryMessages(Tail(hist))

\* The messages list built before the retry loop.
BuildMessages(h, q, data, hist) ==
    <<Message("system", Some("context: " \o data.id))>>
    \o HistoryMessages(HistorySent(h, hist))
    \o <<Message("user", Some(q))>>

\* A test for the key instead of a non-empty list.
HasToolCallsKey(calls) == TRUE

\* "if message.get('tool_calls')": an absent key, null and [] are all falsy.
HasToolCalls(calls) == calls # <<>>

\* json.loads(tool_call["function"]["arguments"]): None when it raises.
JsonLoads(text) ==
    CASE text = "{\"protocol\": \"nfs\"}" -> Some([isdict |-> TRUE, keys |-> {"protocol"}])
      [] text = "{}" -> Some([isdict |-> TRUE, keys |-> {}])
      [] text = "{\"source_ip\": \"10.0.0.1\"}" -> Some([isdict |-> TRUE, keys |-> {"source_ip"}])
      [] text = "[]" -> Some([isdict |-> FALSE, keys |-> {}])
      [] OTHER -> None

ToolError(msg) ==
    [keys |-> {"status", "message", "packets_filtered"}, status |-> "error",
     message |-> msg, filtered_data |-> None]
\* The filtered_data of a filter: the matching packets under the filter's
\* own headings. The protocol filter applied to its own earlier output
\* selects every packet again and builds an equal dict.
FilteredData(name, data) ==
    IF name = "filter_packets_by_protocol" /\ data.by = <<name>>
    THEN data
    ELSE [id |-> data.id, by |-> Append(data.by, name)]
ToolSuccess(name, data) ==
    [keys |-> {"status", "message", "packets_filtered", "filtered_data"}, status |-> "success",
     message |-> "Filtered packets by " \o name, filtered_data |-> Some(FilteredData(name, data))]
ToolException(msg) ==
    [keys |-> {"error"}, status |-> "", message |-> msg, filtered_data |-> None]

\* The argument each filter requires.
RequiredKey(name) ==
    CASE name = "filter_packets_by_protocol" -> "protocol"
      [] name = "filter_packets_by_ip" -> "source_ip"
      [] OTHER -> "operation"

\* Filter.execute_tool and the three filters, as far as the handler sees them.
FilterExecuteTool(name, args, data) ==
    IF name \notin {"filter_packets_by_protocol", "filter_packets_by_ip",
                    "filter_packets_by_operation"}
    THEN ToolError("Unknown filter tool: " \o name)
    ELSE IF ~args.isdict THEN ToolException("raised")
    ELSE IF RequiredKey(name) \notin args.keys
         THEN ToolError(RequiredKey(name) \o " is required for this filter")
         ELSE ToolSuccess(name, data)

\* ToolFactory.execute_tool: an exception of the filter becomes an error result.
ExecuteTool(name, args, data) ==
    LET r == FilterExecuteTool(name, args, data)
    IN  IF r.keys = {"error"}
        THEN ToolException("Tool execution failed: 'list' object has no attribute 'get'")
        ELSE r

\* json.dumps(tool_result["result"])
JsonDumps(result) == result.status \o "|" \o result.message

ToolCallMessage(calls) ==
    [role |-> "assistant", content |-> None, tool_call_id |-> "", tool_calls |-> calls]

\* Tool messages appended last result first.
ToolMessagesReversed(results) ==
    [i \in 1..Len(results) |->
        [role |-> "tool", content |-> Some(JsonDumps(results[Len(results) + 1 - i].result)),
         tool_call_id |-> results[Len(results) + 1 - i].tool_call_id, tool_calls |-> <<>>]]

\* The role "tool" messages appended for tool_results.
ToolMessages(results) ==
    [i \in 1..Len(results) |->
        [role |-> "tool", content |-> Some(JsonDumps(results[i].result)),
         tool_call_id |-> results[i].tool_call_id, tool_calls |-> <<>>]]

\* _summarize_tool_results (the heading and one section heading per result).
RECURSIVE SummarySections(_)
SummarySections(results) ==
    IF results = <<>> THEN ""
    ELSE " [" \o Head(results).function_name \o "]" \o SummarySections(Tail(results))
\* A summary that leaves out the invocations that did not succeed.
SummarizeSuccessfulOnly(results) ==
    "Tool Analysis Results:"
    \o SummarySections(SelectSeq(results, LAMBDA r : r.result.status = "success"))

SummarizeToolResults(results) == "Tool Analysis Results:" \o SummarySections(results)

\* A workflow that gives up when Round 1 fails.
AfterRound1GivingUp(outcome, upd, data) ==
    IF outcome # "200" THEN "done" ELSE IF upd # data THEN "round2" ELSE "final"

\* Where _handle_tool_calls goes after Round 1 and after Round 2.
AfterRound1(outcome, upd, data) == IF upd # data THEN "round2" ELSE "final"
AfterRound2(outcome) == "final"

\* A request posted to /chat/completions, with the number of messages it carries.
Request(kind, msgs) == [kind |-> kind, nmsgs |-> Len(msgs)]
Outcome(kind, n, outcome, wait) == [kind |-> kind, n |-> n, outcome |-> outcome, wait |-> wait]

\* Each tool run on the output of the tool before it.
ToolInputChained(data, upd) == upd

\* The working set handed to execute_tool: the analysis_data argument of
\* _handle_tool_calls, whatever earlier tools of the round returned.
ToolInput(data, upd) == data

\* json.dumps(updated_analysis_data, default=str), as far as it tells
\* working sets apart: the data and the filters it went through.
RECURSIVE Joined(_)
Joined(names) == IF names = <<>> THEN "" ELSE "|" \o Head(names) \o Joined(Tail(names))
DataText(data) == data.id \o Joined(data.by)

\* A retry delay that grows with the attempt.
RetrySleepGrowing(n) == RetrySeconds * (n + 1)

\* time.sleep(2) after the failed attempt of loop index n.
RetrySleep(n) == RetrySeconds

\* append_to_dataset: a failure to read or write dataset.json is caught.
AppendToDataset(q, response) ==
    \E write_ok \in BOOLEAN :
        /\ dataset' = IF write_ok
                      THEN Append(dataset, [question |-> q, response |-> response, handler |-> handler])
                      ELSE dataset
        /\ appended' = Append(appended, [question |-> q, response |-> response, written |-> write_ok])

\* append_to_dataset left out on the return.
ReturnUnrecorded(response) ==
    /\ ret' = response
    /\ pc' = "done"
    /\ UNCHANGED <<dataset, appended>>

\* "self.append_to_dataset(user_question, response); return response"
ReturnRecorded(response) ==
    /\ ret' = response
    /\ pc' = "done"
    /\ AppendToDataset(user_question, response)

ReturnOffline == ReturnRecorded(Some(GenerateOfflineResponse(handler, user_question, q_data')))

-----------------------------------------------------------------------------
(* Query: the steps of query() and _handle_tool_calls() *)

\* The start of query(): the temp-file lookup (tool handler), the probe,
\* and either the offline answer or the messages for the retry loop.
ProbeStep ==
    /\ pc = "start"
    /\ \E tmp \in {None} \cup {Some(d) : d \in TempContents} :  \* None: absent or unreadable
         q_data' = IF handler = "tool" /\ tmp # None THEN Val(tmp) ELSE q_data
    /\ \E net \in {"ok", "fail"}, api \in {"200", "http_error", "transport", "not sent"} :
         /\ (api = "not sent") <=> (net = "fail")
         /\ probe' = [done |-> TRUE, net |-> net, api |-> api]
         /\ IF TestConnection(net, api)
            THEN /\ messages' = BuildMessages(handler, user_question, q_data', conversation_history)
                 /\ pc' = "loop"
                 /\ UNCHANGED <<ret, dataset, appended>>
            ELSE /\ ReturnOffline
                 /\ UNCHANGED messages
    /\ UNCHANGED <<handler, user_question, conversation_history, attempt, tool_calls,
                   tool_results, updated_data, sent, last>>
    /\ UNCHANGED sessionVars
    /\ UNCHANGED extraVars

\* One iteration of "for attempt in range(max_retries)".
\* A RequestException before the last attempt: sleep, then the next attempt.
RetryAfterRequestException(outcome) ==
    IF attempt < MaxRetries - 1
    THEN /\ attempt' = attempt + 1
         /\ last' = Outcome("attempt", attempt + 1, outcome, RetrySleep(attempt))
         /\ UNCHANGED <<pc, ret, dataset, appended>>
    ELSE /\ ReturnOffline
         /\ last' = Outcome("attempt", attempt + 1, outcome, 0)
         /\ UNCHANGED attempt

\* Any other exception: straight to the offline answer.
OfflineAfterException(outcome) ==
    /\ ReturnOffline
    /\ last' = Outcome("attempt", attempt + 1, outcome, 0)
    /\ UNCHANGED attempt

AttemptStep ==
    /\ pc = "loop"
    /\ attempt < MaxRetries
    /\ sent' = Append(sent, Request("attempt", messages))
    /\ UNCHANGED <<handler, user_question, conversation_history, q_data, messages,
                   tool_results, probe>>
    /\ UNCHANGED sessionVars
    /\ UNCHANGED extraVars
    /\ \/ \* requests.post raises a RequestException
          /\ RetryAfterRequestException("transport")
          /\ UNCHANGED <<tool_calls, updated_data>>
       \/ \* a status other than 200
          /\ IF attempt = MaxRetries - 1
             THEN /\ ReturnOffline
                  /\ UNCHANGED attempt
             ELSE /\ attempt' = attempt + 1
                  /\ UNCHANGED <<pc, ret, dataset, appended>>
          /\ last' = Outcome("attempt", attempt + 1, "http_error", 0)
          /\ UNCHANGED <<tool_calls, updated_data>>
       \/ \* 200, and response.json() raises: requests.exceptions.JSONDecodeError
          \* is a RequestException from requests 2.27 on, a plain ValueError before
          /\ \E is_request_exception \in BOOLEAN :
               IF is_request_exception
               THEN RetryAfterRequestException("200 unparsable")
               ELSE OfflineAfterException("200 unparsable")
          /\ UNCHANGED <<tool_calls, updated_data>>
       \/ \* 200, and the body has no choices[0].message (KeyError, IndexError)
          /\ OfflineAfterException("200 no message")
          /\ UNCHANGED <<tool_calls, updated_data>>
       \/ \* 200 with a message, AIQueryHandler: the stripped content
          /\ handler = "direct"
          /\ \E content \in Contents :
               IF content = None
               THEN OfflineAfterException("200 null content")   \* None.strip()
               ELSE /\ ReturnRecorded(Some(Strip(Val(content))))
                    /\ last' = Outcome("attempt", attempt + 1, "200", 0)
                    /\ UNCHANGED attempt
          /\ UNCHANGED <<tool_calls, updated_data>>
       \/ \* 200 with a message, ToolCallingHandler: the ToolDecision response
          /\ handler = "tool"
          /\ \E calls \in {<<>>} \cup ToolCallLists :
               /\ last' = Outcome("attempt", attempt + 1,
                                  IF calls = <<>> THEN "200" ELSE "200 tool_calls", 0)
               /\ IF HasToolCalls(calls)
                  THEN \* _handle_tool_calls starts
                       /\ tool_calls' = calls
                       /\ updated_data' = q_data
                       /\ pc' = "tools"
                       /\ UNCHANGED <<attempt, ret, dataset, appended>>
                  ELSE \* the content is returned as it is
                       /\ \E content \in Contents : ReturnRecorded(content)
                       /\ UNCHANGED <<attempt, tool_calls, updated_data>>

\* One iteration of "for i, tool_call in enumerate(message['tool_calls'], 1)".
ToolStep ==
    /\ pc = "tools"
    /\ Len(tool_results) < Len(tool_calls)
    /\ LET call == tool_calls[Len(tool_results) + 1]
           args == JsonLoads(call.arguments)
       IN  IF args = None
           THEN \* json.loads raises inside query()'s try: "except Exception"
                /\ ReturnOffline
                /\ UNCHANGED <<tool_results, updated_data>>
           ELSE LET result == ExecuteTool(call.name, Val(args), ToolInput(q_data, updated_data))
                IN  /\ updated_data' = IF result.filtered_data # None
                                       THEN Val(result.filtered_data)
                                       ELSE updated_data
                    /\ tool_results' = Append(tool_results,
                           [tool_call_id |-> call.id, function_name |-> call.name,
                            result |-> result])
                    /\ UNCHANGED <<pc, ret, dataset, appended>>
    /\ UNCHANGED <<handler, user_question, conversation_history, q_data, attempt, messages,
                   tool_calls, probe, sent, last>>
    /\ UNCHANGED sessionVars
    /\ UNCHANGED extraVars

\* After the loop: the assistant's tool-call message, then the tool results.
AppendToolMessages ==
    /\ pc = "tools"
    /\ Len(tool_results) = Len(tool_calls)
    /\ messages' = messages \o <<ToolCallMessage(tool_calls)>> \o ToolMessages(tool_results)
    /\ pc' = "round1"
    /\ UNCHANGED <<handler, user_question, conversation_history, q_data, attempt, tool_calls,
                   tool_results, updated_data, ret, dataset, appended, probe, sent, last>>
    /\ UNCHANGED sessionVars
    /\ UNCHANGED extraVars

\* How a round's request ends: 200 with text, 200 with "content": null (the
\* len() of the progress line raises after the message was appended), a
\* status other than 200, and any exception of the post or of the parsing.
RoundOutcomes == {"200", "200 null content", "http_error", "exception"}

\* messages after a round's response.
RoundAnswered(msgs, outcome, text) ==
    IF outcome = "200" THEN Append(msgs, Message("assistant", Some(text)))
    ELSE IF outcome = "200 null content" THEN Append(msgs, Message("assistant", None))
    ELSE msgs

\* Round 1: the Interpreted request.
Round1Step ==
    /\ pc = "round1"
    /\ \E outcome \in RoundOutcomes :
         /\ messages' = RoundAnswered(messages, outcome, "round 1 answer")
         /\ sent' = Append(sent, Request("round1", messages))
         /\ last' = Outcome("round1", 1, outcome, 0)
         /\ pc' = AfterRound1(outcome, updated_data, q_data)
    /\ UNCHANGED <<handler, user_question, conversation_history, q_data, attempt, tool_calls,
                   tool_results, updated_data, ret, dataset, appended, probe>>
    /\ UNCHANGED sessionVars
    /\ UNCHANGED extraVars

\* Round 2: the FilteredAnalysis request.
Round2Step ==
    /\ pc = "round2"
    /\ \E outcome \in RoundOutcomes :
         LET asked == Append(messages, Message("user", Some("filtered: " \o DataText(updated_data))))
         IN  /\ messages' = RoundAnswered(asked, outcome, "round 2 answer")
             /\ sent' = Append(sent, Request("round2", asked))
             /\ last' = Outcome("round2", 1, outcome, 0)
             /\ pc' = AfterRound2(outcome)
    /\ UNCHANGED <<handler, user_question, conversation_history, q_data, attempt, tool_calls,
                   tool_results, updated_data, ret, dataset, appended, probe>>
    /\ UNCHANGED sessionVars
    /\ UNCHANGED extraVars

\* Round 3: the Final request and the return of _handle_tool_calls.
FinalStep ==
    /\ pc = "final"
    /\ LET asked == Append(messages, Message("user", Some("final: " \o user_question)))
       IN  /\ messages' = asked
           /\ sent' = Append(sent, Request("final", asked))
           /\ \/ \E content \in Contents \ {None} :
                   /\ ReturnRecorded(content)
                   /\ last' = Outcome("final", 1, "200", 0)
              \/ \E outcome \in RoundOutcomes \ {"200"} :
                   /\ ReturnRecorded(Some(SummarizeToolResults(tool_results)))
                   /\ last' = Outcome("final", 1, outcome, 0)
    /\ UNCHANGED <<handler, user_question, conversation_history, q_data, attempt, tool_calls,
                   tool_results, updated_data, probe>>
    /\ UNCHANGED sessionVars
    /\ UNCHANGED extraVars

\* A call query(user_question, analysis_data, conversation_history).
QueryInit ==
    /\ handler \in Handlers
    /\ user_question \in Questions
    /\ conversation_history \in Histories
    /\ q_data = OrigData
    /\ pc = "start"
    /\ attempt = 0
    /\ messages = <<>>
    /\ tool_calls = <<>>
    /\ tool_results = <<>>
    /\ updated_data = OrigData
    /\ ret = None
    /\ dataset = <<>>
    /\ appended = <<>>
    /\ probe = [done |-> FALSE, net |-> "", api |-> ""]
    /\ sent = <<>>
    /\ last = Outcome("none", 0, "", 0)

InitQuery == SessionInit /\ QueryInit /\ LogsIdle /\ CallIdle

NextQuery ==
    \/ ProbeStep
    \/ AttemptStep
    \/ ToolStep
    \/ AppendToolMessages
    \/ Round1Step
    \/ Round2Step
    \/ FinalStep

SpecQuery == InitQuery /\ [][NextQuery]_vars

-----------------------------------------------------------------------------
(* The session specification: no query is in progress *)

QueryIdle ==
    /\ handler = "direct"
    /\ user_question = ""
    /\ conversation_history = <<>>
    /\ q_data = OrigData
    /\ pc = "idle"
    /\ attempt = 0
    /\ messages = <<>>
    /\ tool_calls = <<>>
    /\ tool_results = <<>>
    /\ updated_data = OrigData
    /\ ret = None
    /\ dataset = <<>>
    /\ appended = <<>>
    /\ probe = [done |-> FALSE, net |-> "", api |-> ""]
    /\ sent = <<>>
    /\ last = [kind |-> "none", n |-> 0, outcome |-> "", wait |-> 0]

Init == SessionInit /\ QueryIdle /\ LogsIdle /\ CallIdle

Next ==
    \/ SetOpenaiKey
    \/ SetPcapFile
    \/ SetProtocolFilter
    \/ ClearSession
    \/ GetAiHandler
    \/ SessionManagerInit

Spec == Init /\ [][Next]_vars

-----------------------------------------------------------------------------
(* Session: properties *)

\* C1: in a run of consecutive set_protocol_filter calls on a session with
\* parsed data, a call recomputes the filtered record set (goes past the
\* cache check into the filtering code) if and only if its protocol list
\* differs from the list of the call just before it; so repeating a list
\* executes the filter once.
C1_RecomputeIffSelectionChanged ==
    [][ (/\ ev.op = "set_protocol_filter"
         /\ ev'.op = "set_protocol_filter"
         /\ parsed_data # None)
        => ((ev'.detail # "cached") <=> (ev'.arg # ev.arg)) ]_vars

\* C2: a set_pcap_file that succeeds for a path other than the current one
\* leaves no cached filtered record set and no cached summary behind.
C2_NewCaptureInvalidatesFiltered ==
    [][ (/\ ev'.op = "set_pcap_file"
         /\ ev'.ret = TRUE
         /\ pcap_file # Some(ev'.arg[1]))
        => (filtered_packets' = None /\ analysis_data' = None) ]_vars

\* C3: a set_pcap_file whose parse fails reports failure and leaves the
\* capture-file path, the parsed records, the cached handler and the
\* snapshot as they were.
C3_ParseFailureLeavesSession ==
    [][ (ev'.op = "set_pcap_file" /\ ev'.detail = "parse failed")
        => (/\ ev'.ret = FALSE
            /\ pcap_file' = pcap_file
            /\ parsed_data' = parsed_data
            /\ ai_handler' = ai_handler
            /\ disk' = disk) ]_vars

-----------------------------------------------------------------------------
(* Query: properties *)

OfflineTexts ==
    { "OFFLINE MODE (Tool Calling) - AI analysis unavailable.",
      "OFFLINE MODE - AI analysis unavailable.",
      "Based on the packet analysis, the following protocols were detected in this trace:",
      "Top source IP addresses in this trace:" }

NonEmptyString(r) == r # None /\ Val(r) # ""
SentKinds == [i \in DOMAIN sent |-> sent[i].kind]
AttemptsSent == Cardinality({i \in DOMAIN sent : sent[i].kind = "attempt"})
RoundKinds == SelectSeq(SentKinds, LAMBDA k : k # "attempt")
Round1Sent == \E i \in DOMAIN sent : sent[i].kind = "round1"
ToolMessagesAppended == \E k \in DOMAIN messages : messages[k].tool_calls # <<>>
ProbeFailed == probe.done /\ ~(probe.net = "ok" /\ probe.api = "200")

\* C4: whatever the probe, the statuses, the transport errors and the
\* response bodies were, query returns a non-empty string.
C4_AlwaysNonEmptyAnswer ==
    pc = "done" => NonEmptyString(ret)

\* C5: when the connectivity probe fails, query returns the offline
\* responder's non-empty text, and no attempt is sent, no tool is executed
\* and no round is requested.
C5_ProbeFailureGoesOffline ==
    ProbeFailed =>
        /\ pc = "done"
        /\ NonEmptyString(ret)
        /\ Val(ret) \in OfflineTexts
        /\ sent = <<>>
        /\ tool_calls = <<>>
        /\ tool_results = <<>>

C5_Witness ==
    /\ ProbeFailed
    /\ probe.api = "http_error"
    /\ handler = "tool"
    /\ pc = "done"

\* C6: the send loop posts at most 3 requests, a request answered with a
\* success status ends it, and it never stays in the loop with no attempt
\* left.
C6_AtMostThreeFirstSuccessEnds ==
    /\ AttemptsSent <= 3
    /\ (last.kind = "attempt" /\ last.outcome \in {"200", "200 tool_calls", "200 unparsable",
                                                    "200 no message", "200 null content"})
          => pc # "loop"
    /\ pc = "loop" => attempt < 3

\* C7: after a passing probe, a third attempt that ends in a non-success
\* status or a transport error produces the offline answer; a transport
\* error on attempt 1 or 2 is followed by a wait of 2 and the next attempt.
C7_FinalFailureOfflineFixedWait ==
    /\ (last.kind = "attempt" /\ last.n = 3 /\ last.outcome \in {"http_error", "transport"})
          => (pc = "done" /\ NonEmptyString(ret) /\ Val(ret) \in OfflineTexts)
    /\ (last.kind = "attempt" /\ last.n < 3 /\ last.outcome = "transport")
          => (last.wait = 2 /\ pc = "loop" /\ attempt = last.n /\ AttemptsSent = last.n)

C7_Witness ==
    /\ last.kind = "attempt"
    /\ last.n = 3
    /\ last.outcome = "transport"
    /\ AttemptsSent = 3
    /\ pc = "done"

\* C8: once the Interpreted request has been sent, the conversation holds
\* the assistant's tool-call message followed by exactly one tool message
\* per invocation, in request order, each with the id and the result of its
\* own invocation, and the Interpreted request carried all of them.
C8_ToolResultsInRequestOrder ==
    Round1Sent =>
        \E k \in DOMAIN messages :
            /\ messages[k].role = "assistant"
            /\ messages[k].tool_calls = tool_calls
            /\ Len(tool_results) = Len(tool_calls)
            /\ \A j \in 1..Len(tool_calls) :
                 /\ k + j \in DOMAIN messages
                 /\ messages[k + j].role = "tool"
                 /\ messages[k + j].tool_call_id = tool_calls[j].id
                 /\ tool_results[j].tool_call_id = tool_calls[j].id
                 /\ tool_results[j].function_name = tool_calls[j].name
                 /\ messages[k + j].content = Some(JsonDumps(tool_results[j].result))
            /\ Cardinality({i \in DOMAIN messages : messages[i].role = "tool"}) = Len(tool_calls)
            /\ \A i \in DOMAIN sent :
                 sent[i].kind = "round1" => sent[i].nmsgs = k + Len(tool_calls)

C8_Witness ==
    /\ Round1Sent
    /\ Len(tool_calls) = 2
    /\ tool_calls[1].id # tool_calls[2].id
    /\ tool_results[1].result.status = "error"
    /\ tool_results[2].result.status = "success"

\* C9: a round whose tool invocations were requested ends with every
\* invocation executed and the Interpreted request sent, whichever
\* invocations failed.
C9_ToolFailureDoesNotAbortRound ==
    (pc = "done" /\ tool_calls # <<>>) =>
        /\ Len(tool_results) = Len(tool_calls)
        /\ Round1Sent

\* C10: after the tools have run, the handler sends one Interpreted request,
\* then at most one FilteredAnalysis request, then one Final request, in
\* that order, none repeated, whatever the first two were answered.
C10_RoundsInOrderOnce ==
    /\ ~ToolMessagesAppended => RoundKinds = <<>>
    /\ pc = "round1" => RoundKinds = <<>>
    /\ pc = "round2" => RoundKinds = <<"round1">>
    /\ pc = "final" => RoundKinds \in {<<"round1">>, <<"round1", "round2">>}
    /\ (pc = "done" /\ ToolMessagesAppended)
          => RoundKinds \in {<<"round1", "final">>, <<"round1", "round2", "final">>}

C10_Witness ==
    /\ pc = "done"
    /\ RoundKinds = <<"round1", "round2", "final">>
    /\ \A i \in DOMAIN messages : messages[i].content # Some("round 1 answer")
    /\ \A i \in DOMAIN messages : messages[i].content # Some("round 2 answer")

Round2Sent == \E i \in DOMAIN sent : sent[i].kind = "round2"
Narrowed(j) ==
    /\ tool_results[j].result.filtered_data # None
    /\ Val(tool_results[j].result.filtered_data) # q_data

\* C11: the FilteredAnalysis request is sent if and only if at least one
\* tool invocation of the round produced narrowed data for the working set;
\* otherwise the handler goes from Interpreted directly to Final.
C11_FilteredAnalysisIffNarrowed ==
    (pc = "done" /\ ToolMessagesAppended) =>
        /\ Round2Sent <=> (\E j \in DOMAIN tool_results : Narrowed(j))
        /\ ~Round2Sent => RoundKinds = <<"round1", "final">>

\* One section heading per requested invocation, in request order.
RECURSIVE SectionsOf(_)
SectionsOf(calls) ==
    IF calls = <<>> THEN "" ELSE " [" \o Head(calls).name \o "]" \o SectionsOf(Tail(calls))
FinalTexts == {"AI answer", "", "  "}

\* C12: the tool workflow returns the Final response's text when the Final
\* request succeeds, and when it fails the summary of the raw tool results,
\* one section per executed invocation in invocation order, never the
\* generic offline text.
C12_FinalTextOrToolSummary ==
    (pc = "done" /\ last.kind = "final") =>
        /\ ret # None
        /\ Val(ret) \notin OfflineTexts
        /\ last.outcome = "200" => Val(ret) \in FinalTexts
        /\ last.outcome # "200" =>
              /\ Len(tool_results) = Len(tool_calls)
              /\ Val(ret) = "Tool Analysis Results:" \o SectionsOf(tool_calls)

C12_Witness ==
    /\ pc = "done"
    /\ last.kind = "final"
    /\ last.outcome = "exception"
    /\ Len(tool_calls) = 2
    /\ tool_results[1].result.status = "error"
    /\ tool_results[2].result.status = "success"
    /\ ret = Some("Tool Analysis Results: [frobnicate] [filter_packets_by_ip]")

\* C13: when the ToolDecision response holds no tool invocation, the
\* handler returns that response's content and finishes: no tool is
\* executed and no Interpreted, FilteredAnalysis or Final request is sent.
C13_NoToolCallReturnsDirectly ==
    (handler = "tool" /\ last.kind = "attempt" /\ last.outcome = "200") =>
        /\ pc = "done"
        /\ ret \in Contents
        /\ tool_calls = <<>>
        /\ tool_results = <<>>
        /\ ~ToolMessagesAppended
        /\ RoundKinds = <<>>
        /\ AttemptsSent = last.n

C13_Witness ==
    /\ handler = "tool"
    /\ last.kind = "attempt"
    /\ last.outcome = "200"
    /\ pc = "done"
    /\ ret = Some("AI answer")

-----------------------------------------------------------------------------
(* Session: further properties *)

\* C14: when the protocol filter fails inside set_protocol_filter (the
\* filter raises, or no handler exists for the protocol), the working set
\* becomes the unfiltered full record set and the call does not report
\* failure.
C14_FilterFailureFallsBackToAll ==
    [][ (ev'.op = "set_protocol_filter" /\ ev'.detail \in {"filter raised", "no handler"})
        => (/\ ev'.ret = TRUE
            /\ filtered_packets' = Some(AllPackets(Val(parsed_data)))
            /\ analysis_data' = Some(PacketsOnly(AllPackets(Val(parsed_data))))) ]_vars

\* C15: a filtered record set exists only if a parsed full record set
\* exists, and set_protocol_filter on a session without parsed data fails
\* and leaves the filtered set absent.
C15_FilteredOnlyIfParsed ==
    /\ filtered_packets # None => parsed_data # None
    /\ analysis_data # None => filtered_packets # None
    /\ (ev.op = "set_protocol_filter" /\ ev.detail = "no data")
          => (ev.ret = FALSE /\ parsed_data = None /\ filtered_packets = None)

C15_Witness ==
    /\ ev.op = "set_protocol_filter"
    /\ ev.arg = <<"NFS">>
    /\ ev.detail = "no data"
    /\ ev.ret = FALSE
    /\ filtered_packets = None
    /\ last_protocols = <<"NFS">>

\* The snapshot save_session writes for the session as it is now.
Snapshot == [openai_key |-> openai_key, pcap_file |-> pcap_file, parsed_data |-> parsed_data]

\* C16: a session saved with save_session and restored with load_session
\* in a fresh SessionManager has the same full record set, the same active
\* protocol selection and the same filtered record set as before saving.
C16_SaveLoadRoundTrip ==
    [][ (ev'.op = "init" /\ ev'.detail = "loaded" /\ disk = Some(Snapshot))
        => (/\ parsed_data' = parsed_data
            /\ last_protocols' = last_protocols
            /\ filtered_packets' = filtered_packets) ]_vars

\* C17: the session is persisted after every mutating operation: starting
\* from a persisted session, after set_openai_key, set_pcap_file,
\* set_protocol_filter or clear_session a session that holds a capture-file
\* path and parsed records has a snapshot on disk with the same path and
\* records, unless the write of this operation failed.
C17_PersistedAfterEveryMutation ==
    [][ (/\ disk = Some(Snapshot)
         /\ ev'.op \in {"set_openai_key", "set_pcap_file", "set_protocol_filter", "clear_session"}
         /\ pcap_file' # None
         /\ parsed_data' # None)
        => (\/ disk' = Some(Snapshot')
            \/ (ev'.detail \in {"saved", "parsed"} /\ disk' = disk)) ]_vars

\* C18: after clear_session the snapshot file is absent (a failed removal
\* aside) and the session holds no capture-file path, no parsed record set,
\* no filtered record set, no derived summary and no protocol selection.
C18_ClearSessionTearsDown ==
    [][ ev'.op = "clear_session"
        => (/\ disk' \in {None, disk}
            /\ pcap_file' = None
            /\ parsed_data' = None
            /\ filtered_packets' = None
            /\ analysis_data' = None
            /\ last_protocols' = <<>>) ]_vars

\* C19: after a capture file is assigned to a session that has a key, the
\* cached handler is one of the two handlers (Tool-Augmented above the size
\* threshold, Direct otherwise), and get_ai_handler on such a session
\* returns a handler, never None.
C19_HandlerSelectedAndUsable ==
    [][ /\ (ev'.op = "set_pcap_file" /\ ev'.detail = "parsed" /\ openai_key # None)
           => ai_handler' \in {"Standard", "ToolCalling"}
        /\ (ev'.op = "get_ai_handler" /\ openai_key # None /\ parsed_data # None)
           => ai_handler' \in {"Standard", "ToolCalling"} ]_vars

\* C20: the handler is selected once per capture-file assignment and not
\* per query: of two consecutive get_ai_handler calls the second returns
\* the handler of the first and does not run the selection again.
C20_HandlerSelectedOnce ==
    [][ (ev.op = "get_ai_handler" /\ ev'.op = "get_ai_handler")
        => (/\ ai_handler' = ai_handler
            /\ ~(ai_handler = "None" /\ openai_key # None)) ]_vars

\* C29: set_pcap_file(p) with p the current capture-file path and parsed
\* data present is a no-op: it returns True without parsing, without
\* selecting a handler and without writing the snapshot, and every session
\* field is left unchanged.
C29_SetPcapFileCacheHit ==
    [][(/\ ev'.op = "set_pcap_file"
        /\ ev'.tick # ev.tick
        /\ pcap_file = Some(ev'.arg[1])
        /\ parsed_data # None) =>
          /\ UNCHANGED <<openai_key, pcap_file, parsed_data, ai_handler, filtered_packets,
                         analysis_data, last_protocols, disk>>
          /\ ev'.ret = TRUE
          /\ ev'.detail = "cached"]_vars

C29_Witness ==
    /\ ev.op = "set_pcap_file"
    /\ ev.detail = "cached"
    /\ pcap_file = Some("b.pcap")
    /\ ai_handler = "ToolCalling"
    /\ filtered_packets # None

\* The record set set_protocol_filter computes for a capture file and a
\* protocol selection.
FilteredFor(file, protocols) ==
    IF protocols # <<>> /\ protocols[1] \in protocol_classes
    THEN FilterPackets(protocols[1], file)
    ELSE [src |-> file, proto |-> "", how |-> "all"]

\* C34: in every reachable session state a cached filtered record set is
\* the result of filtering the current capture file for the current
\* protocol selection; a failing set_protocol_filter never leaves the new
\* selection paired with the records of the previous one.
C34_FilterCacheMatchesSelection ==
    filtered_packets # None => Val(filtered_packets) = FilteredFor(pcap_file, last_protocols)

\* C35: in every reachable session state the parsed record set, when
\* present, was parsed from the file named by the current capture-file
\* path, and set_pcap_file(p) reports a cache hit only on records parsed
\* from p.
C35_ParsedDataMatchesPath ==
    /\ parsed_data # None => Some(Val(parsed_data).src) = pcap_file
    /\ (ev.op = "set_pcap_file" /\ ev.detail = "cached") =>
           Val(parsed_data).src = ev.arg[1]

-----------------------------------------------------------------------------
(* Query: further properties *)

\* The texts that say they are an offline answer (their first line reads
\* "OFFLINE MODE ... AI analysis unavailable"; no other text of the handlers
\* mentions it).
MarkedDegraded(text) ==
    text \in { "OFFLINE MODE (Tool Calling) - AI analysis unavailable.",
               "OFFLINE MODE - AI analysis unavailable." }

\* The answer came from the offline responder or from the summary fallback.
DegradedAnswer ==
    /\ pc = "done"
    /\ ret # None
    /\ \/ Val(ret) \in OfflineTexts
       \/ (last.kind = "final" /\ last.outcome # "200")

\* C21: every text returned by a degraded path (the offline responder of
\* either handler, for every question, and the tool-result summary) carries
\* an explicit marker that the answer is degraded/offline.
C21_DegradedTextIsMarked ==
    DegradedAnswer => MarkedDegraded(Val(ret))

\* C32 as claimed: every return path of query leaves exactly one dataset
\* entry, holding the question and the text returned to the caller.
C32_RecordedExactlyOnce ==
    pc = "done" =>
        /\ Len(dataset) = 1
        /\ dataset[1].question = user_question
        /\ dataset[1].response = ret

\* C32 as amended: every return path of query calls append_to_dataset
\* exactly once, with the question and the text returned to the caller, and
\* not before it returns; the entry is in dataset.json exactly once when
\* the file could be read and written and is absent when it could not.
C32_RecordedOnceUnlessWriteFails ==
    /\ pc # "done" => (appended = <<>> /\ dataset = <<>>)
    /\ pc = "done" =>
          /\ Len(appended) = 1
          /\ appended[1].question = user_question
          /\ appended[1].response = ret
          /\ dataset = IF appended[1].written
                       THEN <<[question |-> user_question, response |-> ret, handler |-> handler]>>
                       ELSE <<>>

C32_Witness ==
    /\ pc = "done"
    /\ handler = "tool"
    /\ last.kind = "final"
    /\ Len(tool_results) = 2
    /\ ret \notin Contents
    /\ Len(dataset) = 1

\* The invocations of the round that returned narrowed data, in request order.
Producing == {j \in DOMAIN tool_results : tool_results[j].result.filtered_data # None}
LastProduced ==
    IF Producing = {} THEN q_data
    ELSE Val(tool_results[CHOOSE j \in Producing : \A k \in Producing : k <= j]
               .result.filtered_data)

\* C33: within one round every tool invocation is executed against the
\* working set the round started with, never against the output of an
\* earlier invocation; the replacement working set used by FilteredAnalysis
\* is the narrowed data of the last invocation, in request order, that
\* produced one.
C33_ToolsRunOnRoundInput ==
    /\ \A j \in Producing :
         LET out == Val(tool_results[j].result.filtered_data)
         IN  /\ out.id = q_data.id
             /\ out = q_data \/ out.by = Append(q_data.by, tool_results[j].function_name)
    /\ pc \in {"tools", "round1", "round2", "final"} => updated_data = LastProduced
    /\ (Round2Sent /\ pc \in {"final", "done"}) =>
         \E i \in DOMAIN messages :
            /\ messages[i].role = "user"
            /\ messages[i].content = Some("filtered: " \o DataText(LastProduced))

C33_Witness ==
    /\ pc = "final"
    /\ Round2Sent
    /\ Len(tool_results) = 2
    /\ Producing = {1, 2}
    /\ tool_results[1].function_name = "filter_packets_by_protocol"
    /\ tool_results[2].function_name = "filter_packets_by_ip"
    /\ updated_data.by = <<"filter_packets_by_ip">>

\* C40: after a passing probe the offline responder is invoked only once
\* all 3 attempts are exhausted: a failure of attempt 1 or attempt 2 of any
\* kind (a status other than 200, a transport error, an unreadable response
\* body, an error raised while handling tool calls) is followed by another
\* attempt and never directly by the offline answer.
C40_OfflineOnlyAfterAllAttempts ==
    (/\ pc = "done"
     /\ probe.done
     /\ ~ProbeFailed
     /\ ret # None
     /\ Val(ret) \in OfflineTexts) =>
        AttemptsSent = MaxRetries

-----------------------------------------------------------------------------
(* Function calls: one call of a function, from its arguments to its result *)

\* The longest packet batch / working set that is explored.
MaxPackets == 3

\* pyshark packets as parse_packet sees them: translated with their layers,
\* translated with a metadata error noted, or raising during translation.
RawPackets == {"http", "dns", "bad_metadata", "unparsable"}
RawBatches == UNION { [1..n -> RawPackets] : n \in 0..MaxPackets }

\* parse_packet: None when it raises.
ParsePacket(packet) ==
    IF packet = "unparsable" THEN None
    ELSE Some([layers |-> IF packet = "bad_metadata" THEN {"eth"} ELSE {"eth", "ip", packet},
               metadata_error |-> (packet = "bad_metadata")])

\* A batch translation that leaves the failing packets out.
RECURSIVE ParsedPacketsSkipping(_, _)
ParsedPacketsSkipping(packets, i) ==
    IF packets = <<>> THEN <<>>
    ELSE LET parsed == ParsePacket(Head(packets))
         IN  (IF parsed = None
              THEN <<>>
              ELSE <<[packet_index |-> i, error |-> FALSE, layers |-> Val(parsed).layers,
                      metadata_error |-> Val(parsed).metadata_error]>>)
             \o ParsedPacketsSkipping(Tail(packets), i + 1)

\* The loop of parse_packets_to_json over enumerate(packets), from index i.
RECURSIVE ParsedPackets(_, _)
ParsedPackets(packets, i) ==
    IF packets = <<>> THEN <<>>
    ELSE LET parsed == ParsePacket(Head(packets))
         IN  <<IF parsed = None
               THEN [packet_index |-> i, error |-> TRUE, layers |-> {}, metadata_error |-> FALSE]
               ELSE [packet_index |-> i, error |-> FALSE, layers |-> Val(parsed).layers,
                     metadata_error |-> Val(parsed).metadata_error]>>
             \o ParsedPackets(Tail(packets), i + 1)

\* parse_packets_to_json(packets): the JSON text of the list of records.
ParsePacketsToJson ==
    /\ call_args.fn = "parse_packets_to_json"
    /\ call_result = None
    /\ call_result' = Some([json |-> ParsedPackets(call_args.packets, 0)])
    /\ UNCHANGED <<call_args, logVars, sessionVars, queryVars>>

ParseCalls == {[fn |-> "parse_packets_to_json", packets |-> b] : b \in RawBatches}

\* Translated packets of a capture: the layer names, metadata.highest_layer,
\* layers.ip.src (None without an ip layer) and the string values of the
\* protocol layer's fields.
HttpGet == [layers |-> {"eth", "ip", "tcp", "http"}, highest_layer |-> "HTTP",
            src |-> Some("10.0.0.1"), values |-> {"get"}]
HttpPost == [layers |-> {"eth", "ip", "tcp", "http"}, highest_layer |-> "HTTP",
             src |-> Some("10.0.0.2"), values |-> {"post"}]
DnsQuery == [layers |-> {"eth", "ip", "udp", "dns"}, highest_layer |-> "DNS",
             src |-> Some("10.0.0.1"), values |-> {"query"}]
ArpRequest == [layers |-> {"eth", "arp"}, highest_layer |-> "ARP",
               src |-> None, values |-> {"request"}]
PacketKinds == {HttpGet, HttpPost, DnsQuery, ArpRequest}
Captures == UNION { [1..n -> PacketKinds] : n \in 0..MaxPackets }

\* str.lower() on the protocol names in use.
Lower(s) ==
    CASE s = "HTTP" -> "http"
      [] s = "DNS" -> "dns"
      [] s = "ARP" -> "arp"
      [] OTHER -> s

\* dict.get(key, default)
Get(d, key, default) == IF key \in DOMAIN d THEN d[key] ELSE default

\* ProtocolBase.filter_packets and ProtocolBase.analyze
BaseFilterPackets(name, packets) ==
    LET Match(pkt) == pkt.highest_layer = name \/ Lower(name) \in pkt.layers
    IN  SelectSeq(packets, Match)
BaseAnalyze(name, packets) ==
    [protocol |-> name, packet_count |-> Len(packets), packets |-> packets]

\* The working set handed to query(): {"packets": ...} without a protocol
\* filter, the protocol handler's analysis with one.
WorkingSet(packets, protocols) ==
    IF protocols # <<>>
    THEN BaseAnalyze(Head(protocols), BaseFilterPackets(Head(protocols), packets))
    ELSE [packets |-> packets]

\* generate_offline_response of each handler: the headline, the protocol
\* names the text lists and the total packet count it prints.
OfflineText(h, q, data) ==
    LET protocols == Get(data, "protocols", {})
        total_packets == Get(data, "total_packets", 0)
    IN  [headline |-> GenerateOfflineResponse(h, q, data),
         protocols |-> IF h = "tool"
                       THEN (IF protocols # {} THEN protocols ELSE {"Unknown"})
                       ELSE IF "protocol" \in Cues(q) THEN protocols
                       ELSE IF "ip" \in Cues(q) \/ "address" \in Cues(q) THEN {}
                       ELSE protocols,
         total_packets |-> total_packets]

\* generate_offline_response(user_question, analysis_data) on the session's
\* working set.
GenerateOfflineResponseCall ==
    /\ call_args.fn = "generate_offline_response"
    /\ call_result = None
    /\ call_result' = Some([text |-> OfflineText(call_args.handler, call_args.question,
                                        WorkingSet(call_args.packets, call_args.protocols))])
    /\ UNCHANGED <<call_args, logVars, sessionVars, queryVars>>

OfflineCalls ==
    {[fn |-> "generate_offline_response", handler |-> h, question |-> q,
      packets |-> c, protocols |-> p] :
        h \in Handlers, q \in Questions, c \in Captures, p \in {<<>>, <<"HTTP">>}}

\* The protocol test shared by the three filters: the layer names, the
\* highest layer, then the smb2 and http aliases.
ProtocolMatch(protocol_filter, pkt) ==
    \/ protocol_filter \in pkt.layers
    \/ Lower(pkt.highest_layer) = protocol_filter
    \/ protocol_filter = "smb2" /\ "smb" \in pkt.layers
    \/ protocol_filter = "http" /\ pkt.layers \cap {"http", "https"} # {}

\* A protocol test that disregards the protocol.
ProtocolMatchAny(protocol_filter, pkt) == TRUE

\* The protocol test inside filter_by_ip.
IpProtocolMatch(protocol_filter, pkt) == ProtocolMatch(protocol_filter, pkt)

\* The results of a filter: an error, or success with the narrowed data.
FilterError(message) ==
    [status |-> "error", message |-> message, packets_filtered |-> 0, filtered_data |-> None]
\* A success that lists the matching packets newest first.
FilterSuccessNewestFirst(packets) ==
    LET newest_first == [i \in 1..Len(packets) |-> packets[Len(packets) + 1 - i]]
    IN  [status |-> "success", message |-> "Filtered", packets_filtered |-> Len(packets),
         filtered_data |-> Some([total_packets |-> Len(packets), packets |-> newest_first])]
FilterSuccess(packets) ==
    [status |-> "success", message |-> "Filtered", packets_filtered |-> Len(packets),
     filtered_data |-> Some([total_packets |-> Len(packets), packets |-> packets])]

\* filter_by_protocol(arguments, analysis_data)
FilterByProtocol(arguments, data) ==
    LET packets == Get(data, "packets", <<>>)
        protocol_filter == Lower(Get(arguments, "protocol", ""))
        Match(pkt) == ProtocolMatch(protocol_filter, pkt)
    IN  IF protocol_filter = ""
        THEN FilterError("Protocol is required for this filter")
        ELSE FilterSuccess(SelectSeq(packets, Match))

\* filter_by_ip(arguments, analysis_data)
FilterByIp(arguments, data) ==
    LET packets == Get(data, "packets", <<>>)
        source_ip_filter == Get(arguments, "source_ip", "")
        protocol_filter == Lower(Get(arguments, "protocol", ""))
        Match(pkt) ==
            /\ protocol_filter # "" => IpProtocolMatch(protocol_filter, pkt)
            /\ pkt.src = Some(source_ip_filter)
    IN  IF source_ip_filter = ""
        THEN FilterError("Source IP address is required for this filter")
        ELSE FilterSuccess(SelectSeq(packets, Match))

\* The string values filter_by_operation searches in a packet: the fields of
\* its layers and of its metadata.
SearchedValues(pkt) ==
    pkt.values \cup {Lower(pkt.highest_layer)} \cup {pkt.src[i] : i \in 1..Len(pkt.src)}

\* filter_by_operation(arguments, analysis_data): the operation is searched
\* as a substring of the values (among the values in use: equality).
FilterByOperation(arguments, data) ==
    LET packets == Get(data, "packets", <<>>)
        operation_filter == Lower(Get(arguments, "operation", ""))
        protocol_filter == Lower(Get(arguments, "protocol", ""))
        Match(pkt) ==
            /\ protocol_filter # "" => ProtocolMatch(protocol_filter, pkt)
            /\ operation_filter \in SearchedValues(pkt)
    IN  IF operation_filter = ""
        THEN FilterError("Operation is required for this filter")
        ELSE FilterSuccess(SelectSeq(packets, Match))

\* Filter.execute_tool on the packets of a working set. analysis_data is
\* the argument after the call: the filters append the matching packets to
\* a new list and assign to no key of analysis_data or of a packet.
FilterCall ==
    /\ call_args.fn \in {"filter_packets_by_protocol", "filter_packets_by_ip",
                         "filter_packets_by_operation"}
    /\ call_result = None
    /\ LET data == [packets |-> call_args.packets]
           r == CASE call_args.fn = "filter_packets_by_protocol" ->
                       FilterByProtocol(call_args.arguments, data)
                  [] call_args.fn = "filter_packets_by_ip" ->
                       FilterByIp(call_args.arguments, data)
                  [] OTHER -> FilterByOperation(call_args.arguments, data)
       IN  call_result' = Some([status |-> r.status, message |-> r.message,
                                packets_filtered |-> r.packets_filtered,
                                filtered_data |-> r.filtered_data,
                                analysis_data |-> data])
    /\ UNCHANGED <<call_args, logVars, sessionVars, queryVars>>

\* The arguments objects the model may send.
ProtocolArguments == {[protocol |-> p] : p \in {"http", "DNS", "arp"}}
IpArguments ==
    {[source_ip |-> a] : a \in {"10.0.0.1", "10.0.0.2"}}
    \cup {[source_ip |-> a, protocol |-> p] : a \in {"10.0.0.1", "10.0.0.2"}, p \in {"http", "dns"}}
    \cup {[protocol |-> "http"]}
OperationArguments ==
    {[operation |-> o] : o \in {"get", "frobnicate"}}
    \cup {[operation |-> o, protocol |-> p] : o \in {"get", "frobnicate"}, p \in {"http", "dns"}}
    \cup {[protocol |-> "http"]}
FilterCalls ==
    {[fn |-> "filter_packets_by_protocol", arguments |-> a, packets |-> c] :
        a \in ProtocolArguments \cup {[operation |-> "get"]}, c \in Captures}
    \cup {[fn |-> "filter_packets_by_ip", arguments |-> a, packets |-> c] :
        a \in IpArguments, c \in Captures}
    \cup {[fn |-> "filter_packets_by_operation", arguments |-> a, packets |-> c] :
        a \in OperationArguments, c \in Captures}

MaxTurns == 4

\* session.conversation_history after n answered queries.
TurnLists == {[i \in 1..n |-> HistoryEntry(i)] : n \in 0..MaxTurns}

\* The part of query() that builds the messages of the request
\* (ai_query_handler.py:131-137, tool_calling_handler.py:142-147).
BuildMessagesCall ==
    /\ call_args.fn = "build_messages"
    /\ call_result = None
    /\ call_result' = Some([messages |-> BuildMessages(call_args.handler, call_args.question,
                                                       OrigData, call_args.history)])
    /\ UNCHANGED <<call_args, logVars, sessionVars, queryVars>>

MessageCalls ==
    {[fn |-> "build_messages", handler |-> h, question |-> q, history |-> t] :
        h \in Handlers, q \in Questions, t \in TurnLists}

MaxLines == 2

\* The lines of a response, each a sequence of characters: letters, spaces,
\* the hyphen and the bullet character U+2022 (written "bullet").
ResponseLines ==
    {<<>>, <<" ">>, <<"a">>, <<" ", "a">>, <<"a", " ">>, <<"a", "-", "b">>,
     <<"-", " ", "a">>, <<"bullet", " ", "a">>, <<" ", "bullet">>}
\* response.split('\n'): at least one line.
Responses == UNION { [1..n -> ResponseLines] : n \in 1..MaxLines }

RECURSIVE LStrip(_)
LStrip(line) ==
    IF line # <<>> /\ Head(line) = " " THEN LStrip(Tail(line)) ELSE line
RECURSIVE RStrip(_)
RStrip(line) ==
    IF line # <<>> /\ line[Len(line)] = " " THEN RStrip(SubSeq(line, 1, Len(line) - 1)) ELSE line
\* line.strip()
StripLine(line) == RStrip(LStrip(line))

\* "c in response" and line.startswith(c)
InResponse(c, response) ==
    \E i \in 1..Len(response) : \E j \in 1..Len(response[i]) : response[i][j] = c
StartsWith(line, c) == line # <<>> /\ Head(line) = c

\* The conversion of the lines of a response that has more than one line.
BulletLines(response) ==
    [i \in 1..Len(response) |->
        IF /\ StripLine(response[i]) # <<>>
           /\ ~StartsWith(response[i], "bullet")
           /\ ~StartsWith(response[i], "-")
        THEN <<"bullet", " ">> \o StripLine(response[i])
        ELSE response[i]]

\* The transform without the test for a bullet already in the response.
EnhanceIgnoringBullets(response, preference) ==
    IF preference = "raises" THEN response
    ELSE IF preference = "use_bullet_points" /\ Len(response) > 1
         THEN BulletLines(response)
         ELSE response

\* enhance_response_with_rl(response, analysis_data, query)
EnhanceResponseWithRl(response, preference) ==
    IF preference = "raises" THEN response
    ELSE IF /\ preference = "use_bullet_points"
            /\ ~InResponse("bullet", response)
            /\ ~InResponse("-", response)
            /\ Len(response) > 1
         THEN BulletLines(response)
         ELSE response

\* enhance_response_with_rl on a response, then on its own output.
EnhanceCall ==
    /\ call_args.fn = "enhance_response_with_rl"
    /\ call_result = None
    /\ call_result' = Some([response |-> EnhanceResponseWithRl(call_args.response,
                                                             call_args.preference),
                           applied |-> 1, previous |-> call_args.response])
    /\ UNCHANGED <<call_args, logVars, sessionVars, queryVars>>
EnhanceAgainCall ==
    /\ call_args.fn = "enhance_response_with_rl"
    /\ call_result # None
    /\ Val(call_result).applied = 1
    /\ call_result' = Some([response |-> EnhanceResponseWithRl(Val(call_result).response,
                                                             call_args.preference),
                           applied |-> 2, previous |-> Val(call_result).response])
    /\ UNCHANGED <<call_args, logVars, sessionVars, queryVars>>

\* preference: what rl_trainer.get_response_recommendations gives for the
\* query, or that it raises.
EnhanceCalls ==
    {[fn |-> "enhance_response_with_rl", response |-> r, preference |-> p] :
        r \in Responses, p \in {"use_bullet_points", "none", "raises"}}

-----------------------------------------------------------------------------
(* Function calls: the specification *)

CallInputs == ParseCalls \cup OfflineCalls \cup FilterCalls \cup MessageCalls
    \cup EnhanceCalls

InitCalls ==
    /\ SessionInit
    /\ QueryIdle
    /\ LogsIdle
    /\ call_args \in CallInputs
    /\ call_result = None

NextCalls ==
    \/ ParsePacketsToJson
    \/ GenerateOfflineResponseCall
    \/ FilterCall
    \/ BuildMessagesCall
    \/ EnhanceCall
    \/ EnhanceAgainCall

SpecCalls == InitCalls /\ [][NextCalls]_vars

-----------------------------------------------------------------------------
(* Function calls: properties *)

\* C22: parse_packets_to_json on a batch of n packets yields exactly n
\* records: a packet that fails conversion is replaced by an error
\* placeholder with its index, every other packet is translated and carries
\* its own index, and a malformed packet does not abort the batch.
C22_OneRecordPerPacket ==
    (call_args.fn = "parse_packets_to_json" /\ call_result # None) =>
        LET out == Val(call_result).json
            batch == call_args.packets
        IN  /\ Len(out) = Len(batch)
            /\ \A i \in 1..Len(batch) :
                 /\ out[i].packet_index = i - 1
                 /\ out[i].error <=> (batch[i] = "unparsable")
                 /\ batch[i] \in {"http", "dns"} => out[i].layers = {"eth", "ip", batch[i]}
                 /\ batch[i] = "bad_metadata" => (out[i].metadata_error /\ ~out[i].error)

C22_Witness ==
    /\ call_args.fn = "parse_packets_to_json"
    /\ call_args.packets = <<"http", "unparsable", "dns">>
    /\ call_result # None
    /\ Val(call_result).json[2].error
    /\ Val(call_result).json[3].packet_index = 2

\* The protocol names that occur in a list of packets.
ProtocolsOf(packets) == {packets[i].highest_layer : i \in 1..Len(packets)}

\* C23: under RemoteUnavailable the offline answer to a protocol question
\* names every protocol of the working set and its total packet count; for
\* two HTTP packets and one DNS packet it contains "HTTP", "DNS" and "3".
C23_OfflineTextNamesProtocols ==
    (/\ call_args.fn = "generate_offline_response"
     /\ call_args.question = "what protocols are present"
     /\ call_result # None) =>
        LET set == WorkingSet(call_args.packets, call_args.protocols)
            text == Val(call_result).text
        IN  /\ ProtocolsOf(set.packets) \subseteq text.protocols
            /\ text.total_packets = Len(set.packets)

\* C27: an operation-filter request whose (protocol, operation) pair is not
\* a known pair, such as (http, frobnicate), returns an InvalidParameters
\* error instead of a successful filter result.
C27_UnknownOperationRejected ==
    (/\ call_args.fn = "filter_packets_by_operation"
     /\ call_result # None
     /\ Get(call_args.arguments, "operation", "") = "frobnicate"
     /\ Get(call_args.arguments, "protocol", "") = "http") =>
        /\ Val(call_result).status = "error"
        /\ Val(call_result).filtered_data = None

\* C28: the address filter without a source address returns an error with
\* zero packets and no narrowed data; with a source address and a protocol
\* it returns the packets that are both in the address-only result and in
\* the protocol-only result for the same working set, in input order.
C28_AddressFilterIntersects ==
    (call_args.fn = "filter_packets_by_ip" /\ call_result # None) =>
        LET arguments == call_args.arguments
            data == [packets |-> call_args.packets]
            r == Val(call_result)
        IN  IF "source_ip" \notin DOMAIN arguments
            THEN /\ r.status = "error"
                 /\ r.packets_filtered = 0
                 /\ r.filtered_data = None
            ELSE /\ r.status = "success"
                 /\ "protocol" \in DOMAIN arguments =>
                      LET by_ip == Val(FilterByIp([source_ip |-> arguments.source_ip], data)
                                         .filtered_data).packets
                          by_protocol == Val(FilterByProtocol([protocol |-> arguments.protocol], data)
                                               .filtered_data).packets
                          InBoth(pkt) ==
                              /\ \E i \in 1..Len(by_ip) : by_ip[i] = pkt
                              /\ \E i \in 1..Len(by_protocol) : by_protocol[i] = pkt
                      IN  /\ Val(r.filtered_data).packets = SelectSeq(call_args.packets, InBoth)
                          /\ r.packets_filtered = Len(SelectSeq(call_args.packets, InBoth))

C28_Witness ==
    /\ call_args.fn = "filter_packets_by_ip"
    /\ call_args.arguments = [source_ip |-> "10.0.0.1", protocol |-> "http"]
    /\ call_args.packets = <<DnsQuery, HttpPost, HttpGet>>
    /\ call_result # None
    /\ Val(Val(call_result).filtered_data).packets = <<HttpGet>>

\* C30: the Direct handler's request carries the instruction frame with the
\* serialized working-set summary, then every conversation turn of the
\* session as a question/answer pair in chronological order, none dropped,
\* then the new question as the last message.
C30_DirectSendsAllTurns ==
    (/\ call_args.fn = "build_messages"
     /\ call_args.handler = "direct"
     /\ call_result # None) =>
        LET m == Val(call_result).messages
            t == call_args.history
        IN  /\ Len(m) = 2 * Len(t) + 2
            /\ m[1].role = "system"
            /\ m[1].content = Some("context: " \o OrigData.id)
            /\ \A i \in 1..Len(t) :
                 /\ m[2 * i].role = "user"
                 /\ m[2 * i].content = Some(t[i].query)
                 /\ m[2 * i + 1].role = "assistant"
                 /\ m[2 * i + 1].content = Some(t[i].response)
            /\ m[Len(m)].role = "user"
            /\ m[Len(m)].content = Some(call_args.question)

C30_Witness ==
    /\ call_args.fn = "build_messages"
    /\ call_args.handler = "direct"
    /\ Len(call_args.history) = 4
    /\ call_result # None
    /\ Len(Val(call_result).messages) = 10
    /\ Val(call_result).messages[2].content = Some(HistoryEntry(1).query)

\* A line that is a bullet item, and a line that holds no text.
BulletedLine(line) == StartsWith(StripLine(line), "bullet") \/ StartsWith(StripLine(line), "-")
BlankLine(line) == StripLine(line) = <<>>

\* C31: enhance_response_with_rl changes a response only when a bullet-point
\* preference is recorded and the response has no bullet already; it then
\* turns every non-empty plain line into a bulleted line; applying it twice
\* gives what applying it once gives; when the preference lookup fails the
\* response is returned unchanged.
C31_BulletTransform ==
    (call_args.fn = "enhance_response_with_rl" /\ call_result # None) =>
        LET r == Val(call_result)
            before == r.previous
            after == r.response
        IN  /\ (r.applied = 1 /\ after # before) =>
                 /\ call_args.preference = "use_bullet_points"
                 /\ \A i \in 1..Len(before) : ~BulletedLine(before[i])
                 /\ Len(after) = Len(before)
                 /\ \A i \in 1..Len(before) :
                      IF BlankLine(before[i])
                      THEN after[i] = before[i]
                      ELSE after[i] = <<"bullet", " ">> \o StripLine(before[i])
            /\ r.applied = 2 => after = before
            /\ call_args.preference = "raises" => after = before

C31_Witness ==
    /\ call_args.fn = "enhance_response_with_rl"
    /\ call_args.response = <<<<" ", "a">>, <<"a", " ">>>>
    /\ call_result # None
    /\ Val(call_result).applied = 2
    /\ Val(call_result).response = <<<<"bullet", " ", "a">>, <<"bullet", " ", "a">>>>

-----------------------------------------------------------------------------
(* Interaction logs: src/pcap_ai.py and the two log files *)

MaxLog == 2

LogQuestions == {"what protocols are present", "top ip addresses"}
LogAnswer(q) == "answer to: " \o q
\* How a run of query() ends for the caller, and how a write to a file ends.
QueryOutcomes == {"answered", "raised", "EOFError", "KeyboardInterrupt"}
WriteOutcomes == {"ok", "open failed", "dump failed"}
\* The handler's own write to dataset.json succeeds or fails to open.
HandlerWrites == {"ok", "open failed"}

\* A file holding a JSON list, and a file whose text is not JSON.
JsonFile(entries) == Some([valid |-> TRUE, entries |-> entries])
InvalidFile == Some([valid |-> FALSE, entries |-> <<>>])
Entries(file) == IF file = None THEN <<>> ELSE Val(file).entries

\* The dictionaries appended by interactive_mode / main and by the handler,
\* without their session, time and feedback fields.
HistoryRecord(q, a, test_mode) == [query |-> q, response |-> a]
DatasetRecord(q, a, test_mode) == [key |-> "query", query |-> q, response |-> a]
HandlerRecord(q, a) == [key |-> "question", query |-> q, response |-> a]
Turn(q, a) == [query |-> q, response |-> a]

\* open(file, "w") and json.dump(entries, file): a failing open leaves the
\* file as it was, a failing dump leaves a truncated text behind.
Written(file, entries, outcome) ==
    CASE outcome = "ok" -> JsonFile(entries)
      [] outcome = "open failed" -> file
      [] OTHER -> InvalidFile

\* One branch of load_history_and_dataset: the list as it stands when the
\* file is absent, [] on invalid JSON, the file's list otherwise.
Loaded(file, current) ==
    IF file = None THEN current
    ELSE IF Val(file).valid THEN Val(file).entries ELSE <<>>

\* append_to_dataset of the handler on dataset.json.
AppendToDatasetFile(file, q, a, outcome) ==
    IF file # None /\ ~Val(file).valid THEN file
    ELSE Written(file, Append(Entries(file), HandlerRecord(q, a)), outcome)

\* A save that writes both files inside one try block.
SaveInOneTry(hf, df, h, d, ho, do) ==
    [history_file |-> Written(hf, h, ho),
     dataset_file |-> IF ho = "ok" THEN Written(df, d, do) ELSE df,
     attempted |-> IF ho = "ok" THEN {"history", "dataset"} ELSE {"history"},
     raised |-> FALSE]

\* save_history_and_dataset: two writes, each in its own try block.
SaveHistoryAndDataset(hf, df, h, d, ho, do) ==
    [history_file |-> Written(hf, h, ho),
     dataset_file |-> Written(df, d, do),
     attempted |-> {"history", "dataset"},
     raised |-> FALSE]

\* The three appends that drop the conversation turn.
RecordedWithoutTurn(mem, q, a, test_mode) ==
    [history |-> Append(mem.history, HistoryRecord(q, a, test_mode)),
     dataset |-> Append(mem.dataset, DatasetRecord(q, a, test_mode)),
     turns |-> mem.turns]

\* The three appends after an answer.
Recorded(mem, q, a, test_mode) ==
    [history |-> Append(mem.history, HistoryRecord(q, a, test_mode)),
     dataset |-> Append(mem.dataset, DatasetRecord(q, a, test_mode)),
     turns |-> Append(mem.turns, Turn(q, a))]

Memory == [history |-> history, dataset |-> session_dataset, turns |-> turns]

\* Memory after SessionManager.__init__ of a new process.
LoadedMemory ==
    [history |-> Loaded(history_file, <<>>),
     dataset |-> Loaded(dataset_file, <<>>),
     turns |-> <<>>]

\* What the query part of a process does to memory: the appends after an
\* answer, nothing when query() or the feedback prompt raises.
AfterQuery(mem, q, outcome, test_mode) ==
    IF outcome = "answered" THEN Recorded(mem, q, LogAnswer(q), test_mode) ELSE mem

\* dataset.json after query(): the handler appends unless query() raised.
AfterHandler(file, q, outcome, write) ==
    IF outcome = "raised" THEN file ELSE AppendToDatasetFile(file, q, LogAnswer(q), write)

LogRoom ==
    /\ Len(history) < MaxLog
    /\ Len(session_dataset) < MaxLog
    /\ Len(Entries(history_file)) < MaxLog
    /\ Len(Entries(dataset_file)) < MaxLog

LogEvent(op, q, outcome, before, saved) ==
    [op |-> op, question |-> q, outcome |-> outcome, before |-> before, saved |-> saved]
NotSaved == [ho |-> "none", do |-> "none", attempted |-> {}, raised |-> FALSE]
SavedEvent(s, ho, do) == [ho |-> ho, do |-> do, attempted |-> s.attempted, raised |-> s.raised]

\* pcap_ai.py started without a query: SessionManager() and interactive_mode.
StartInteractive(test_mode) ==
    /\ running = "off"
    /\ running' = IF test_mode THEN "test" ELSE "user"
    /\ history' = LoadedMemory.history
    /\ session_dataset' = LoadedMemory.dataset
    /\ turns' = LoadedMemory.turns
    /\ log_ev' = LogEvent("start", "", "", LoadedMemory, NotSaved)
    /\ UNCHANGED <<history_file, dataset_file, proto_input, callVars, sessionVars, queryVars>>

\* One question at the interactive prompt (pcap_ai.py:350-461). A
\* KeyboardInterrupt at the feedback prompt leaves the inner try block for
\* the outer handler, which saves and leaves the loop (InteractiveQuit).
InteractiveQuery(q, outcome, write) ==
    /\ running \in {"user", "test"}
    /\ LogRoom
    /\ outcome \in {"EOFError", "KeyboardInterrupt"} => running = "test"
    /\ outcome = "raised" => write = "ok"
    /\ LET mem == AfterQuery(Memory, q, outcome, running = "test")
       IN  /\ history' = mem.history
           /\ session_dataset' = mem.dataset
           /\ turns' = mem.turns
    /\ dataset_file' = AfterHandler(dataset_file, q, outcome, write)
    /\ running' = IF outcome = "KeyboardInterrupt" THEN "interrupted" ELSE running
    /\ log_ev' = LogEvent("query", q, outcome, Memory, NotSaved)
    /\ UNCHANGED <<history_file, proto_input, callVars, sessionVars, queryVars>>

\* "quit", or an interrupt / end of input: save both logs and leave.
InteractiveQuit(ho, do) ==
    /\ running # "off"
    /\ LET s == SaveHistoryAndDataset(history_file, dataset_file, history, session_dataset, ho, do)
       IN  /\ history_file' = s.history_file
           /\ dataset_file' = s.dataset_file
           /\ log_ev' = LogEvent("quit", "", "", Memory, SavedEvent(s, ho, do))
    /\ running' = "off"
    /\ UNCHANGED <<history, session_dataset, turns, proto_input, callVars, sessionVars, queryVars>>

\* pcap_ai.py --query (pcap_ai.py:561-670): a new process that loads, asks
\* once, records and saves; on an exception it returns without saving (the
\* feedback prompt exists in test mode only).
SingleQuery(q, outcome, write, ho, do) ==
    /\ running = "off"
    /\ Len(Entries(history_file)) < MaxLog
    /\ Len(Entries(dataset_file)) < MaxLog
    /\ outcome # "KeyboardInterrupt"
    /\ outcome = "raised" => write = "ok"
    /\ LET mem == AfterQuery(LoadedMemory, q, outcome, outcome = "EOFError")
           df == AfterHandler(dataset_file, q, outcome, write)
           s == SaveHistoryAndDataset(history_file, df, mem.history, mem.dataset, ho, do)
       IN  /\ history' = mem.history
           /\ session_dataset' = mem.dataset
           /\ turns' = mem.turns
           /\ IF outcome = "answered"
              THEN /\ history_file' = s.history_file
                   /\ dataset_file' = s.dataset_file
                   /\ log_ev' = LogEvent("query", q, outcome, LoadedMemory, SavedEvent(s, ho, do))
              ELSE /\ ho = "ok" /\ do = "ok"
                   /\ history_file' = history_file
                   /\ dataset_file' = df
                   /\ log_ev' = LogEvent("query", q, outcome, LoadedMemory, NotSaved)
    /\ running' = "off"
    /\ UNCHANGED <<proto_input, callVars, sessionVars, queryVars>>

\* pcap_ai.py --clear-history (pcap_ai.py:528-536): a new process that
\* loads, writes [] to the history file and returns.
ClearHistory(write) ==
    /\ running = "off"
    /\ history' = LoadedMemory.history
    /\ session_dataset' = LoadedMemory.dataset
    /\ turns' = LoadedMemory.turns
    /\ history_file' = Written(history_file, <<>>, write)
    /\ log_ev' = LogEvent("clear-history", "", "", LoadedMemory, NotSaved)
    /\ UNCHANGED <<running, dataset_file, proto_input, callVars, sessionVars, queryVars>>

InitLogs == SessionInit /\ QueryIdle /\ LogsIdle /\ CallIdle

NextLogs ==
    \/ \E test_mode \in BOOLEAN : StartInteractive(test_mode)
    \/ \E q \in LogQuestions, outcome \in QueryOutcomes, write \in HandlerWrites :
         InteractiveQuery(q, outcome, write)
    \/ \E ho, do \in WriteOutcomes : InteractiveQuit(ho, do)
    \/ \E q \in LogQuestions, outcome \in QueryOutcomes, write \in HandlerWrites,
          ho, do \in WriteOutcomes :
         SingleQuery(q, outcome, write, ho, do)
    \/ \E write \in WriteOutcomes : ClearHistory(write)

SpecLogs == InitLogs /\ [][NextLogs]_vars

-----------------------------------------------------------------------------
(* Interaction logs: properties *)

\* C24: each answered query appends exactly one entry to the history, one to
\* the dataset and one to the conversation turns, all with the same question
\* and answer; a query that ends in an error appends to none of them.
C24_LogsGrowInLockstep ==
    log_ev.op = "query" =>
        LET before == log_ev.before
            n == Len(history)
        IN  IF log_ev.outcome = "answered"
            THEN /\ Len(history) = Len(before.history) + 1
                 /\ Len(session_dataset) = Len(before.dataset) + 1
                 /\ Len(turns) = Len(before.turns) + 1
                 /\ SubSeq(history, 1, n - 1) = before.history
                 /\ SubSeq(session_dataset, 1, Len(session_dataset) - 1) = before.dataset
                 /\ SubSeq(turns, 1, Len(turns) - 1) = before.turns
                 /\ history[n].query = log_ev.question
                 /\ session_dataset[Len(session_dataset)].query = log_ev.question
                 /\ turns[Len(turns)].query = log_ev.question
                 /\ history[n].response = session_dataset[Len(session_dataset)].response
                 /\ history[n].response = turns[Len(turns)].response
                 /\ history[n].response = LogAnswer(log_ev.question)
            ELSE Memory = before

C24_Witness ==
    /\ log_ev.op = "query"
    /\ log_ev.outcome = "answered"
    /\ Len(turns) = 2
    /\ Len(history) = 2
    /\ running = "test"

\* s occurs in t as a subsequence: every entry of s, in the same order.
RECURSIVE IsSubsequence(_, _)
IsSubsequence(s, t) ==
    IF s = <<>> THEN TRUE
    ELSE IF t = <<>> THEN FALSE
    ELSE IF Head(s) = Head(t) THEN IsSubsequence(Tail(s), Tail(t))
    ELSE IsSubsequence(s, Tail(t))

\* C25: the interaction logs are append-only: whatever a step does, every
\* entry that was in the dataset log or in the history log is still in that
\* log afterwards, in its original relative order.
C25_LogsAppendOnly ==
    [][/\ IsSubsequence(Entries(dataset_file), Entries(dataset_file'))
       /\ IsSubsequence(Entries(history_file), Entries(history_file'))]_vars

\* C26: a failure to write the history or the dataset log is absorbed:
\* save_history_and_dataset does not raise, the dataset write is attempted
\* (and takes effect when it succeeds) whatever happened to the history
\* write, and the session in memory (history, dataset, conversation turns,
\* parsed data) is left as it was.
C26_SaveFailureAbsorbed ==
    [][(log_ev'.op \in {"quit", "query"} /\ log_ev'.saved.ho # "none") =>
          /\ ~log_ev'.saved.raised
          /\ log_ev'.saved.attempted = {"history", "dataset"}
          /\ log_ev'.saved.do = "ok" => dataset_file' = JsonFile(session_dataset')
          /\ log_ev'.saved.ho = "ok" => history_file' = JsonFile(history')
          /\ log_ev'.op = "quit" =>
                UNCHANGED <<history, session_dataset, turns, parsed_data>>
          /\ log_ev'.op = "query" =>
                /\ <<history', session_dataset', turns'>> =
                     <<Recorded(log_ev'.before, log_ev'.question,
                                LogAnswer(log_ev'.question), FALSE).history,
                       Recorded(log_ev'.before, log_ev'.question,
                                LogAnswer(log_ev'.question), FALSE).dataset,
                       Recorded(log_ev'.before, log_ev'.question,
                                LogAnswer(log_ev'.question), FALSE).turns>>
                /\ parsed_data' = parsed_data]_vars

C26_Witness ==
    /\ log_ev.op = "quit"
    /\ log_ev.saved.ho = "open failed"
    /\ log_ev.saved.do = "ok"
    /\ Len(session_dataset) = 1
    /\ Len(history) = 1
    /\ history_file = None
    /\ dataset_file = JsonFile(session_dataset)

-----------------------------------------------------------------------------
(* Interactive session: the prompts, commands and questions of src/pcap_ai.py *)
(* The session file and the two logs are written without failure here;       *)
(* failing writes are the subject of Spec and SpecLogs.                      *)

\* pcap_ai.py:272
known_protocols == {"NFS", "HTTP", "SMB2"}

\* input(...).strip().upper() of the answers typed at the protocol prompt.
StripUpper(raw) ==
    CASE raw = "  " -> ""
      [] raw = " nfs" -> "NFS"
      [] raw = "smb2" -> "SMB2"
      [] raw = "ftp" -> "FTP"

\* SessionManager.set_pcap_file of pcap_ai.py (pcap_ai.py:121-140), on the
\* session s.
CliSetPcapFile(s, f, parse_ok) ==
    IF s.pcap_file = Some(f) /\ s.parsed_data # None
    THEN [pcap_file |-> s.pcap_file, parsed_data |-> s.parsed_data, disk |-> s.disk, ok |-> TRUE]
    ELSE IF parse_ok
    THEN [pcap_file |-> Some(f), parsed_data |-> Some(ParsePcap(f)),
          disk |-> SaveSession(s.openai_key, Some(f), Some(ParsePcap(f)), TRUE, s.disk),
          ok |-> TRUE]
    ELSE [pcap_file |-> Some(f), parsed_data |-> s.parsed_data, disk |-> s.disk, ok |-> FALSE]

\* pcap_ai.py starts: SessionManager() loads the session and the logs, main
\* handles --key (absent, a readable key file with the text content, a
\* missing key file) and returns when the key file cannot be read
\* (pcap_ai.py:210, 549-553).
StartMain(load_ok, key_arg, content) ==
    /\ running = "off"
    /\ LET loaded == LoadSession(disk, load_ok)
       IN  /\ openai_key' = IF key_arg = "found" THEN Some(content) ELSE loaded.openai_key
           /\ pcap_file' = loaded.pcap_file
           /\ parsed_data' = loaded.parsed_data
           /\ disk' = IF key_arg = "found"
                      THEN SaveSession(Some(content), loaded.pcap_file, loaded.parsed_data,
                                       TRUE, disk)
                      ELSE disk
    /\ history' = LoadedMemory.history
    /\ session_dataset' = LoadedMemory.dataset
    /\ turns' = LoadedMemory.turns
    /\ last_protocols' = <<>>
    /\ running' = IF key_arg = "missing" THEN "off" ELSE "pcap argument"
    /\ log_ev' = [op |-> "start", outcome |-> key_arg]
    /\ UNCHANGED <<proto_input, history_file, dataset_file, ai_handler, filtered_packets,
                   analysis_data, ev, callVars, queryVars>>

\* main handles --pcap and returns when the capture cannot be parsed
\* (pcap_ai.py:555-559).
PcapArgument(pcap_arg, parse_ok) ==
    /\ running = "pcap argument"
    /\ IF pcap_arg = None
       THEN /\ UNCHANGED <<pcap_file, parsed_data, disk>>
            /\ running' = "mode"
            /\ log_ev' = [op |-> "--pcap", outcome |-> "absent"]
       ELSE LET p == CliSetPcapFile([openai_key |-> openai_key, pcap_file |-> pcap_file,
                                     parsed_data |-> parsed_data, disk |-> disk],
                                    Val(pcap_arg), parse_ok)
            IN  /\ pcap_file' = p.pcap_file
                /\ parsed_data' = p.parsed_data
                /\ disk' = p.disk
                /\ running' = IF p.ok THEN "mode" ELSE "off"
                /\ log_ev' = [op |-> "--pcap",
                              outcome |-> IF p.ok THEN "updated" ELSE "parse failed"]
    /\ UNCHANGED <<openai_key, last_protocols, proto_input, history, session_dataset, turns,
                   history_file, dataset_file, ai_handler, filtered_packets, analysis_data,
                   ev, callVars, queryVars>>

\* No --query: interactive_mode reads the protocol answer once
\* (pcap_ai.py:271-274).
EnterInteractive(raw) ==
    /\ running = "mode"
    /\ proto_input' = StripUpper(raw)
    /\ running' = "prompt"
    /\ log_ev' = [op |-> "interactive", outcome |-> ""]
    /\ UNCHANGED <<openai_key, pcap_file, parsed_data, disk, last_protocols, history,
                   session_dataset, turns, history_file, dataset_file, ai_handler,
                   filtered_packets, analysis_data, ev, callVars, queryVars>>

\* One pass of the loop around the protocol answer (pcap_ai.py:275-285).
ProtocolPrompt ==
    /\ running = "prompt"
    /\ LET printed(outcome) ==
               [op |-> "prompt", outcome |-> outcome, input |-> proto_input,
                tick |-> IF log_ev.op = "prompt" THEN 1 - log_ev.tick ELSE 0]
       IN  IF proto_input = ""
           THEN /\ last_protocols' = <<>>
                /\ running' = "user"
                /\ log_ev' = printed("no filter")
           ELSE IF proto_input \in known_protocols
           THEN /\ last_protocols' = <<proto_input>>
                /\ running' = "user"
                /\ log_ev' = printed("set")
           ELSE /\ UNCHANGED <<last_protocols, running>>
                /\ log_ev' = printed("not valid")
    /\ UNCHANGED <<openai_key, pcap_file, parsed_data, disk, proto_input, history,
                   session_dataset, turns, history_file, dataset_file, ai_handler,
                   filtered_packets, analysis_data, ev, callVars, queryVars>>

\* "key <path>" at the command prompt: set_openai_key (pcap_ai.py:109-119,
\* 317-322); content is the text of the key file after strip().
KeyCommand(found, content) ==
    /\ running = "user"
    /\ IF found
       THEN /\ openai_key' = Some(content)
            /\ disk' = SaveSession(Some(content), pcap_file, parsed_data, TRUE, disk)
            /\ log_ev' = [op |-> "key", outcome |-> "updated"]
       ELSE /\ UNCHANGED <<openai_key, disk>>
            /\ log_ev' = [op |-> "key", outcome |-> "not found"]
    /\ UNCHANGED <<pcap_file, parsed_data, last_protocols, running, proto_input, history,
                   session_dataset, turns, history_file, dataset_file, ai_handler,
                   filtered_packets, analysis_data, ev, callVars, queryVars>>

\* "pcap <path>" at the command prompt (pcap_ai.py:324-328).
PcapCommand(f, parse_ok) ==
    /\ running = "user"
    /\ LET p == CliSetPcapFile([openai_key |-> openai_key, pcap_file |-> pcap_file,
                                parsed_data |-> parsed_data, disk |-> disk],
                               f, parse_ok)
       IN  /\ pcap_file' = p.pcap_file
           /\ parsed_data' = p.parsed_data
           /\ disk' = p.disk
           /\ log_ev' = [op |-> "pcap", outcome |-> IF p.ok THEN "updated" ELSE "parse failed"]
    /\ UNCHANGED <<openai_key, last_protocols, running, proto_input, history,
                   session_dataset, turns, history_file, dataset_file, ai_handler,
                   filtered_packets, analysis_data, ev, callVars, queryVars>>

\* "clear" at the command prompt: clear_session (pcap_ai.py:96-107).
ClearCommand(remove_ok) ==
    /\ running = "user"
    /\ openai_key' = None
    /\ pcap_file' = None
    /\ parsed_data' = None
    /\ disk' = IF remove_ok THEN None ELSE disk
    /\ log_ev' = [op |-> "clear", outcome |-> ""]
    /\ UNCHANGED <<last_protocols, running, proto_input, history, session_dataset, turns,
                   history_file, dataset_file, ai_handler, filtered_packets, analysis_data,
                   ev, callVars, queryVars>>

\* The checks with the one for the key left out.
RefusalForDataOnly(key, data) ==
    IF data = None THEN "no data" ELSE "none"

\* The two checks before a question is processed (pcap_ai.py:338-348 and
\* 565-574): which of them refuses it. get_openai_key and get_parsed_data
\* give None unless the field is truthy; the text parse_pcap returns for a
\* capture is never empty.
Refusal(key, data) ==
    IF key = None \/ key = Some("") THEN "no key"
    ELSE IF data = None THEN "no data"
    ELSE "none"

\* What a question did.
AskEvent(op, q, outcome, dispatched, working_set) ==
    [op |-> op, question |-> q, outcome |-> outcome, dispatched |-> dispatched,
     working_set |-> working_set, selection |-> last_protocols,
     before |-> Memory, file_before |-> dataset_file]

\* A question at the command prompt (pcap_ai.py:330-460), in user mode. ws
\* is the packets the question is asked about (pcap_ai.py:359-373), None
\* when filter_packets raises.
InteractiveAsk(q, filter_ok, outcome, write) ==
    /\ running = "user"
    /\ LogRoom
    /\ LET refusal == Refusal(openai_key, parsed_data)
           ws == IF refusal # "none" THEN None
                 ELSE IF last_protocols # <<>> /\ last_protocols[1] \in protocol_classes
                 THEN IF filter_ok
                      THEN Some(FilterPackets(last_protocols[1], pcap_file))
                      ELSE None
                 ELSE Some(AllPackets(Val(parsed_data)))
           dispatched == refusal = "none" /\ ws # None
           mem == IF dispatched THEN AfterQuery(Memory, q, outcome, FALSE) ELSE Memory
       IN  /\ history' = mem.history
           /\ session_dataset' = mem.dataset
           /\ turns' = mem.turns
           /\ dataset_file' = IF dispatched
                              THEN AfterHandler(dataset_file, q, outcome, write)
                              ELSE dataset_file
           /\ log_ev' = AskEvent("ask", q,
                                 IF refusal # "none" THEN refusal
                                 ELSE IF ws = None THEN "filter raised" ELSE outcome,
                                 dispatched, ws)
    /\ UNCHANGED <<openai_key, pcap_file, parsed_data, disk, last_protocols, running,
                   proto_input, history_file, ai_handler, filtered_packets, analysis_data,
                   ev, callVars, queryVars>>

\* "quit" and the end of input at the command prompt (pcap_ai.py:295-299,
\* 463-472): save the session and the logs, leave.
QuitCommand ==
    /\ running = "user"
    /\ disk' = SaveSession(openai_key, pcap_file, parsed_data, TRUE, disk)
    /\ LET s == SaveHistoryAndDataset(history_file, dataset_file, history, session_dataset,
                                      "ok", "ok")
       IN  /\ history_file' = s.history_file
           /\ dataset_file' = s.dataset_file
    /\ running' = "off"
    /\ log_ev' = [op |-> "quit", outcome |-> ""]
    /\ UNCHANGED <<openai_key, pcap_file, parsed_data, last_protocols, proto_input, history,
                   session_dataset, turns, ai_handler, filtered_packets, analysis_data, ev,
                   callVars, queryVars>>

\* --query (pcap_ai.py:561-670), in user mode: ask once, record and save.
MainQuery(q, outcome, write) ==
    /\ running = "mode"
    /\ LogRoom
    /\ LET dispatched == Refusal(openai_key, parsed_data) = "none"
           mem == IF dispatched THEN AfterQuery(Memory, q, outcome, FALSE) ELSE Memory
           df == IF dispatched THEN AfterHandler(dataset_file, q, outcome, write) ELSE dataset_file
       IN  /\ history' = mem.history
           /\ session_dataset' = mem.dataset
           /\ turns' = mem.turns
           /\ IF dispatched /\ outcome = "answered"
              THEN LET s == SaveHistoryAndDataset(history_file, df, mem.history, mem.dataset,
                                                  "ok", "ok")
                   IN  /\ history_file' = s.history_file
                       /\ dataset_file' = s.dataset_file
              ELSE /\ history_file' = history_file
                   /\ dataset_file' = df
           /\ log_ev' = AskEvent("main", q,
                                 IF dispatched THEN outcome
                                 ELSE Refusal(openai_key, parsed_data),
                                 dispatched,
                                 IF dispatched THEN Some(AllPackets(Val(parsed_data))) ELSE None)
    /\ running' = "off"
    /\ UNCHANGED <<openai_key, pcap_file, parsed_data, disk, last_protocols, proto_input,
                   ai_handler, filtered_packets, analysis_data, ev, callVars, queryVars>>

NextInteractive ==
    \/ \E load_ok \in BOOLEAN, key_arg \in {"absent", "found", "missing"},
          content \in {"", "key"} :
         StartMain(load_ok, key_arg, content)
    \/ \E pcap_arg \in {None, Some("a.pcap")}, parse_ok \in BOOLEAN :
         PcapArgument(pcap_arg, parse_ok)
    \/ \E raw \in {"  ", " nfs", "smb2", "ftp"} : EnterInteractive(raw)
    \/ ProtocolPrompt
    \/ \E found \in BOOLEAN, content \in {"", "key"} : KeyCommand(found, content)
    \/ \E parse_ok \in BOOLEAN : PcapCommand("a.pcap", parse_ok)
    \/ \E remove_ok \in BOOLEAN : ClearCommand(remove_ok)
    \/ \E filter_ok \in BOOLEAN, outcome \in {"answered", "raised"}, write \in HandlerWrites :
         InteractiveAsk("what protocols are present", filter_ok, outcome, write)
    \/ QuitCommand
    \/ \E outcome \in {"answered", "raised"}, write \in HandlerWrites :
         MainQuery("what protocols are present", outcome, write)

SpecInteractive == InitLogs /\ [][NextInteractive]_vars

\* The steps of a running process are taken; the next command typed at the
\* prompt is not.
FairInteractive == SpecInteractive /\ WF_vars(ProtocolPrompt)

-----------------------------------------------------------------------------
(* Interactive session: properties *)

\* C36: the protocol prompt of interactive mode always terminates: for every
\* answer, including one that is not a known protocol name, the prompt ends
\* with no protocol or exactly one known protocol selected and the session
\* reaches the command loop.
C36_PromptTerminates ==
    (running = "prompt") ~>
        /\ running = "user"
        /\ \/ last_protocols = <<>>
           \/ \E p \in known_protocols : last_protocols = <<p>>

\* C37: every protocol name the prompt accepts has a registered handler: a
\* question asked under an accepted selection is answered from the packets
\* filtered for that protocol, never from the unfiltered record set.
C37_AcceptedSelectionIsFiltered ==
    (log_ev.op = "ask" /\ log_ev.dispatched /\ log_ev.selection # <<>>) =>
        /\ log_ev.selection[1] \in protocol_classes
        /\ log_ev.working_set = Some(FilterPackets(log_ev.selection[1], pcap_file))

\* C39: a question reaches a handler only when the session holds both a key
\* and parsed capture data; otherwise it is refused before the handler (and
\* so before its connectivity probe) is called, and nothing is appended to
\* the history, the dataset, the conversation turns or dataset.json.
C39_QuestionNeedsKeyAndData ==
    log_ev.op \in {"ask", "main"} =>
        LET holds_both == openai_key # None /\ openai_key # Some("") /\ parsed_data # None
        IN  /\ log_ev.dispatched => holds_both
            /\ ~holds_both =>
                  /\ ~log_ev.dispatched
                  /\ log_ev.outcome \in {"no key", "no data"}
                  /\ Memory = log_ev.before
                  /\ dataset_file = log_ev.file_before

C39_Witness ==
    /\ log_ev.op = "ask"
    /\ log_ev.outcome = "no key"
    /\ openai_key = Some("")
    /\ parsed_data # None
    /\ Len(history) = 1


-----------------------------------------------------------------------------
(* Function calls: the filters' effect on their input *)

\* C38: every filter tool leaves the input working set and its packet
\* records unmodified; on success it returns an order-preserving sub-list of
\* the input packets, with packets_filtered equal to the narrowed data's
\* total_packets and to the number of packets returned; on error it returns
\* no narrowed data and packets_filtered is 0.
C38_FiltersNarrowWithoutMutation ==
    (/\ call_args.fn \in {"filter_packets_by_protocol", "filter_packets_by_ip",
                          "filter_packets_by_operation"}
     /\ call_result # None) =>
        LET r == Val(call_result)
        IN  /\ r.analysis_data = [packets |-> call_args.packets]
            /\ r.status \in {"success", "error"}
            /\ r.status = "success" =>
                  /\ r.filtered_data # None
                  /\ IsSubsequence(Val(r.filtered_data).packets, call_args.packets)
                  /\ r.packets_filtered = Val(r.filtered_data).total_packets
                  /\ r.packets_filtered = Len(Val(r.filtered_data).packets)
            /\ r.status = "error" =>
                  /\ r.filtered_data = None
                  /\ r.packets_filtered = 0

C38_Witness ==
    /\ call_args.fn = "filter_packets_by_protocol"
    /\ call_args.arguments = [protocol |-> "http"]
    /\ call_args.packets = <<HttpGet, DnsQuery, HttpPost>>
    /\ call_result # None
    /\ Val(Val(call_result).filtered_data).packets = <<HttpGet, HttpPost>>
    /\ Val(call_result).packets_filtered = 2

=============================================================================
